---- MODULE Spec2Model ----
(***************************************************************************)
(* The historical-session ingestor of scripts/bridge_server.py:            *)
(* BackgroundIngestor (sessions, active_tasks, ingest), the /openf1/catchup *)
(* handler that schedules ingest as a background task, and the             *)
(* /openf1/live handler that serves the buffer to pollers.                 *)
(*                                                                         *)
(* Time is counted in minutes ("ticks"); a record's date, a window bound   *)
(* and a poller's last_date are ticks, and the string comparison of the    *)
(* code (ISO-8601 strings of one format) is the order of the ticks.        *)
(* Every session is older than 24 hours (is_historical), the only case in  *)
(* which the handlers reach the ingestor.                                  *)
(*                                                                         *)
(* ingest runs in a worker thread of the server (a sync function given to  *)
(* BackgroundTasks), so every access it makes to the shared state is a     *)
(* step of its own; the handlers are coroutines of the event loop.         *)
(***************************************************************************)
EXTENDS Integers, Sequences, FiniteSets

\* ------------------------------------------------------------------ bounds
MaxCatchups == 2      \* catchup requests made in a short scenario
MaxFaults == 1        \* upstream faults injected in a short scenario
MaxProvisions == 2    \* provision requests made in a scenario
MaxPoints == 5        \* points of a sequence given to the path functions
MaxSample == 3        \* points of a sample given to the bounds computation
MaxMissions == 3      \* add-mission requests made to the mission bridge
MaxLocs == 2100       \* geo-points of a sample given to the subsampling

\* ------------------------------------------------------- program constants
chunk_mins == 5
sample_mins == 5
max_chunks == 48
EMPTY_LIMIT == 3
POLL_LIMIT == 1000

Keys == {1, 2}                       \* session keys in use
None == 0 - 1                        \* Python's None, where a date is expected
Kinds == {"telemetry", "location"}

\* date_start of the session, as /sessions reports it
date_start(k) == 10 * k

\* ------------------------------------------------------------- arithmetic
(* Coordinates, scales and offsets are floats in the program; here they are *)
(* exact fractions <<numerator, denominator>> with a positive denominator,  *)
(* compared by cross-multiplication. NoCoord stands for a coordinate that   *)
(* is None.                                                                 *)

\* the fraction n/d, d # 0
Frac(n, d) == IF d < 0 THEN <<0 - n, 0 - d>> ELSE <<n, d>>

Whole(n) == <<n, 1>>
NoCoord == <<0, 0>>
IsNone(a) == a[2] = 0

RAdd(a, b) == Frac(a[1] * b[2] + b[1] * a[2], a[2] * b[2])
RSub(a, b) == Frac(a[1] * b[2] - b[1] * a[2], a[2] * b[2])
RMul(a, b) == Frac(a[1] * b[1], a[2] * b[2])
RDiv(a, b) == Frac(a[1] * b[2], a[2] * b[1])
REq(a, b) == IF a[2] = b[2] THEN a[1] = b[1] ELSE a[1] * b[2] = b[1] * a[2]
RLe(a, b) == IF a[2] = b[2] THEN a[1] <= b[1] ELSE a[1] * b[2] <= b[1] * a[2]
RLt(a, b) == IF a[2] = b[2] THEN a[1] < b[1] ELSE a[1] * b[2] < b[1] * a[2]
RMin(S) == CHOOSE a \in S : \A b \in S : RLe(a, b)
RMax(S) == CHOOSE a \in S : \A b \in S : RLe(b, a)
Range(seq) == {seq[n] : n \in 1..Len(seq)}

\* ---------------------------------------------------------- OpenF1Service
\* the defaults of OpenF1Service.__init__
norm_width == 1000
norm_height == 700
padding == 50

Point(x, y) == [x |-> x, y |-> y]

NoBounds ==
    [cached |-> FALSE, error |-> "none", min_x |-> NoCoord, max_x |-> NoCoord,
     min_y |-> NoCoord, max_y |-> NoCoord, scale |-> NoCoord, ox |-> NoCoord,
     oy |-> NoCoord]

\* a range that is not replaced when it is 0
Span_Unguarded(r) == r

\* lines 92-93: "if xr == 0: xr = 1"
Span(r) == IF REq(r, Whole(0)) THEN Whole(1) ELSE r

\* the larger of the two ratios
Scale_Larger(sx, sy) == IF RLe(sx, sy) THEN sy ELSE sx

\* line 95: min of the two ratios
Scale(sx, sy) == IF RLe(sx, sy) THEN sx ELSE sy

\* an offset that puts the box at the padding
Offset_Padding(side, r, scale) == Whole(padding)

\* lines 96-97: the offset that centres the scaled range r in a viewport side
Offset(side, r, scale) == RDiv(RSub(Whole(side), RMul(r, scale)), Whole(2))

\* lines 84-104 of calculate_session_bounds: the bounds of a non-empty list of
\* location points, None (NoBounds) when no x or no y is left, and the
\* ZeroDivisionError a range of 0 would raise in line 95
Bounds(locations) ==
    LET xs == {locations[n].x : n \in {m \in 1..Len(locations) : ~IsNone(locations[m].x)}}
        ys == {locations[n].y : n \in {m \in 1..Len(locations) : ~IsNone(locations[m].y)}}
    IN  IF xs = {} \/ ys = {} THEN NoBounds
        ELSE LET min_x == RMin(xs)
                 max_x == RMax(xs)
                 min_y == RMin(ys)
                 max_y == RMax(ys)
                 xr == Span(RSub(max_x, min_x))
                 yr == Span(RSub(max_y, min_y))
             IN  IF REq(xr, Whole(0)) \/ REq(yr, Whole(0))
                 THEN [NoBounds EXCEPT !.error = "ZeroDivisionError"]
                 ELSE LET sx == RDiv(Whole(norm_width - 2 * padding), xr)
                          sy == RDiv(Whole(norm_height - 2 * padding), yr)
                          scale == Scale(sx, sy)
                      IN  [cached |-> TRUE, error |-> "none",
                           min_x |-> min_x, max_x |-> max_x,
                           min_y |-> min_y, max_y |-> max_y,
                           scale |-> scale,
                           ox |-> Offset(norm_width, xr, scale),
                           oy |-> Offset(norm_height, yr, scale)]

\* lines 80-82, then Bounds: what calculate_session_bounds makes of a sample
SampleBounds(locations) == IF locations = <<>> THEN NoBounds ELSE Bounds(locations)

\* normalize that keeps the result inside the padded viewport
Affine_Clamped(bounds, p) ==
    LET nx == RAdd(RMul(RSub(p.x, bounds.min_x), bounds.scale), bounds.ox)
        ny == RAdd(RMul(RSub(p.y, bounds.min_y), bounds.scale), bounds.oy)
        lo == Whole(padding)
        hx == Whole(norm_width - padding)
        hy == Whole(norm_height - padding)
    IN  Point(IF RLt(nx, lo) THEN lo ELSE IF RLt(hx, nx) THEN hx ELSE nx,
              IF RLt(ny, lo) THEN lo ELSE IF RLt(hy, ny) THEN hy ELSE ny)

\* lines 120-122 of normalize_point
Affine(bounds, p) ==
    Point(RAdd(RMul(RSub(p.x, bounds.min_x), bounds.scale), bounds.ox),
          RAdd(RMul(RSub(p.y, bounds.min_y), bounds.scale), bounds.oy))

\* lines 118-122 of normalize_point, given the bounds it found or computed: the
\* point as it is when there are none
normalize_point(bounds, p) == IF ~bounds.cached THEN p ELSE Affine(bounds, p)

\* "None - float" raises TypeError
Unsubtractable(bounds, p) == bounds.cached /\ (IsNone(p.x) \/ IsNone(p.y))

\* ------------------------------------------------------ generate_svg_paths
(* scripts/generate_svg_paths.py: smooth_points and generate_svg_path. The  *)
(* input points have whole coordinates; a Catmull-Rom sample is a multiple  *)
(* of 1/Unit, and every coordinate of a smoothed point or of a path command *)
(* is kept as a whole number of such parts.                                 *)
samples_per_segment == 8
smooth_jump == 50
max_jump == 50
close_threshold == 10
provision_target == 1000
race_target == 1500
min_lap == 10
Unit == 2 * samples_per_segment * samples_per_segment * samples_per_segment

Abs(n) == IF n < 0 THEN 0 - n ELSE n

\* a^2 + b^2 against t^2 for numbers too large to be squared in one word: three
\* digits to the base 2^15
Base == 2 ^ 15
Carry(c) ==
    LET m == c[2] + (c[3] \div Base)
    IN  <<c[1] + (m \div Base), m % Base, c[3] % Base>>
Square(a) ==
    LET a1 == a \div Base
        a0 == a % Base
    IN  Carry(<<a1 * a1, 2 * a1 * a0, a0 * a0>>)
Sum(p, q) == Carry(<<p[1] + q[1], p[2] + q[2], p[3] + q[3]>>)
Less(p, q) ==
    \/ p[1] < q[1]
    \/ p[1] = q[1] /\ p[2] < q[2]
    \/ p[1] = q[1] /\ p[2] = q[2] /\ p[3] < q[3]

\* math.hypot(dx, dy) > t and math.hypot(dx, dy) < t
HypotAbove(dx, dy, t) ==
    \/ Abs(dx) > t
    \/ Abs(dy) > t
    \/ Less(Square(t), Sum(Square(Abs(dx)), Square(Abs(dy))))
HypotBelow(dx, dy, t) ==
    /\ Abs(dx) < t
    /\ Abs(dy) < t
    /\ Less(Sum(Square(Abs(dx)), Square(Abs(dy))), Square(t))

\* a pair of whole coordinates
Part(x, y) == [x |-> x, y |-> y]

\* lines 41-44: the coordinates of a point, 0 for one that is missing
Coord(c) == IF IsNone(c) THEN 0 ELSE c[1]
Coords(pts) == [n \in 1..Len(pts) |-> Part(Coord(pts[n].x), Coord(pts[n].y))]

\* a point as it is, in parts of 1/Unit
Whole_Part(p) == Part(p.x * Unit, p.y * Unit)

\* lines 25-28, times Unit, for t = i / samples_per_segment
F1(i) == 0 - i * i * i + 2 * samples_per_segment * i * i
           - samples_per_segment * samples_per_segment * i
F2(i) == 3 * i * i * i - 5 * samples_per_segment * i * i + Unit
F3(i) == 0 - 3 * i * i * i + 4 * samples_per_segment * i * i
           + samples_per_segment * samples_per_segment * i
F4(i) == i * i * i - samples_per_segment * i * i

\* lines 16-33: the samples between p1 and p2
catmull_rom_spline(p0, p1, p2, p3) ==
    [j \in 1..samples_per_segment |->
        LET i == j - 1
        IN  Part(p0.x * F1(i) + p1.x * F2(i) + p2.x * F3(i) + p3.x * F4(i),
                 p0.y * F1(i) + p1.y * F2(i) + p2.y * F3(i) + p3.y * F4(i))]

\* Jump that no pair of points makes
Jump_Never(p1, p2) == FALSE

\* line 57: a jump between p1 and p2
Jump(p1, p2) == HypotAbove(p1.x - p2.x, p1.y - p2.y, smooth_jump)

\* lines 50-62: what the segment that starts at point i adds to the smoothed list
Segment(coords, i) ==
    LET n == Len(coords)
        at(j) == coords[((j - 1) % n) + 1]
        p0 == at(i - 1)
        p1 == at(i)
        p2 == at(i + 1)
        p3 == at(i + 2)
    IN  IF Jump(p1, p2) THEN <<Whole_Part(p1)>> ELSE catmull_rom_spline(p0, p1, p2, p3)

RECURSIVE Smoothed(_, _)
Smoothed(coords, i) ==
    IF i > Len(coords) THEN <<>> ELSE Segment(coords, i) \o Smoothed(coords, i + 1)

\* lines 35-64; fewer than four points are returned as they are
smooth_points(pts) ==
    IF Len(pts) < 4 THEN [n \in 1..Len(pts) |-> Whole_Part(Coords(pts)[n])]
    ELSE Smoothed(Coords(pts), 1)

\* Step that draws a line whatever the distance
Step_AlwaysLine(prev, p) == [cmd |-> "L", x |-> p.x, y |-> p.y]

\* lines 85-88: the command that leads from prev to p
Step(prev, p) ==
    [cmd |-> IF HypotAbove(prev.x - p.x, prev.y - p.y, max_jump * Unit) THEN "M" ELSE "L",
     x |-> p.x, y |-> p.y]

\* lines 5-14 and 92: the end is near the start; a missing coordinate makes
\* distance return 0
Near(a, b) ==
    \/ IsNone(a.x) \/ IsNone(a.y) \/ IsNone(b.x) \/ IsNone(b.y)
    \/ HypotBelow(a.x[1] - b.x[1], a.y[1] - b.y[1], close_threshold)

\* a point with a coordinate that format and hypot cannot take (lines 78, 85)
Incomplete(pts) == \E n \in 1..Len(pts) : IsNone(pts[n].x) \/ IsNone(pts[n].y)

\* lines 66-95: the commands of the path, or the TypeError of an unsmoothed
\* point without a coordinate
generate_svg_path(pts) ==
    IF pts = <<>> THEN [error |-> "none", ops |-> <<>>]
    ELSE IF Len(pts) < 4 /\ Incomplete(pts) THEN [error |-> "TypeError", ops |-> <<>>]
    ELSE LET target_points == smooth_points(pts)
             segments == [n \in 1..Len(target_points) |->
                             IF n = 1
                             THEN [cmd |-> "M", x |-> target_points[1].x,
                                   y |-> target_points[1].y]
                             ELSE Step(target_points[n - 1], target_points[n])]
         IN  [error |-> "none",
              ops |-> IF Near(pts[1], pts[Len(pts)])
                      THEN Append(segments, [cmd |-> "Z", x |-> 0, y |-> 0])
                      ELSE segments]

\* ---------------------------------------------------------------- upstream
(* A scenario's upstream data: the ticks (minutes after date_start) at     *)
(* which the session has telemetry and location records, and the number    *)
(* of cars reporting at each tick.                                         *)
ShortProfiles ==
    { [tel |-> {}, loc |-> {}, drivers |-> 1, track |-> "line"],
      [tel |-> {1, 5}, loc |-> {2}, drivers |-> 1, track |-> "line"],
      [tel |-> {3}, loc |-> {6}, drivers |-> 2, track |-> "diag"] }

\* windows 0-4 hold data, nothing after
FiveWindows ==
    [tel |-> {1, 6, 11, 16, 21}, loc |-> {2, 7, 23}, drivers |-> 1, track |-> "diag"]
\* two location points in window 0, two in window 1
TwoByTwo == [tel |-> {}, loc |-> {1, 3, 6, 8}, drivers |-> 1, track |-> "line"]
\* data in every third window only, for the whole four hours
LongSparse == [tel |-> {}, loc |-> {t \in 0..(chunk_mins * max_chunks) : t % 15 = 12},
               drivers |-> 1, track |-> "diag"]
\* six cars reporting at every minute of the four hours
LongDense == [tel |-> 0..(chunk_mins * max_chunks),
              loc |-> {t \in 0..(chunk_mins * max_chunks) : t % 15 = 2},
              drivers |-> 6, track |-> "fleet"]
\* two empty windows between two windows with data
Gap == [tel |-> {1}, loc |-> {16}, drivers |-> 1, track |-> "line"]
LongProfiles == {FiveWindows, TwoByTwo, Gap, LongSparse, LongDense}

\* the sessions a client polls while they are ingested: a telemetry record
\* later than the location record of its window, more than POLL_LIMIT
\* telemetry records with many cars reporting at the same minute, and the
\* five windows with one car
LateTelemetry == [tel |-> {3}, loc |-> {2}, drivers |-> 1, track |-> "line"]
Crowded == [tel |-> {1, 2, 3, 4}, loc |-> {2}, drivers |-> 300, track |-> "fleet"]
PollProfiles == {LateTelemetry, Crowded, FiveWindows}

\* the sessions a client asks to provision: a first window with four location
\* points, with two, with one, with none, and with one that has no y
ProvisionProfiles ==
    { [tel |-> {1}, loc |-> {1, 2, 3, 4, 6}, drivers |-> 2, track |-> "diag"],
      [tel |-> {1}, loc |-> {1, 3, 6}, drivers |-> 1, track |-> "line"],
      [tel |-> {1}, loc |-> {2, 7}, drivers |-> 1, track |-> "diag"],
      [tel |-> {1}, loc |-> {7}, drivers |-> 1, track |-> "line"],
      [tel |-> {1}, loc |-> {1, 2, 6}, drivers |-> 1, track |-> "noy"] }

\* where car n is at tick t on each track: raw coordinates as the upstream
\* reports them
Track(name, t, n) ==
    CASE name = "line" -> Point(Whole(5 * (t - 1)), Whole(0))
      [] name = "diag" -> Point(Whole(100 * t), Whole(0 - 50 * t + n))
      [] name = "fleet" -> Point(Whole(t), Whole(10 * n))
      [] name = "noy" -> Point(Whole(3 * t), IF t = 2 THEN NoCoord ELSE Whole(t))

VARIABLES
    sessions,       \* ingestor.sessions
    active_tasks,   \* ingestor.active_tasks
    tasks,          \* the background tasks scheduled so far, in order
    disk,           \* public/ingested/session_<key>.json
    resp,           \* the response of the handler that returned in the last step
    profile,        \* the upstream data of this scenario
    asked,          \* the session keys the clients of this scenario ask for
    quota,          \* catchup requests still to come
    faults,         \* upstream faults still to come
    session_bounds, \* openf1.session_bounds
    cached_drivers, \* the keys of openf1.cached_drivers
    provisions,     \* provision requests still to come
    points,         \* the point sequence given to the path functions
    out,            \* what a path or bounds function made of points
    scripts,        \* the background tasks of the mission bridge, in order
    loop,           \* what occupies the event loop of the mission bridge
    answer,         \* the last response of the mission bridge
    poller,         \* a client that polls GET /openf1/live: its cursor and what it got
    buffers         \* the dicts get_session_data has made, and who holds which

\* the caches of the OpenF1Service
svc == <<session_bounds, cached_drivers>>

\* the state of a geometry computation
geo == <<points, out>>

\* the state of the mission bridge (apps/bridge/main.py)
app == <<scripts, loop, answer>>

vars == <<sessions, active_tasks, tasks, disk, resp, profile, asked, quota, faults,
          session_bounds, cached_drivers, provisions, geo, app, poller, buffers>>

\* ------------------------------------------------------------------ records
Rec(k, kind, d, n, pt) ==
    [session_key |-> k, kind |-> kind, date |-> d, driver_number |-> n, form |-> "record",
     x |-> pt.x, y |-> pt.y]

\* what list.extend leaves in the list when given a JSON object: its keys
KeyOfObject(k, kind) ==
    [session_key |-> k, kind |-> kind, date |-> None, driver_number |-> 0, form |-> "string",
     x |-> NoCoord, y |-> NoCoord]

Profiles == ShortProfiles \cup LongProfiles \cup ProvisionProfiles \cup PollProfiles

\* the records of one kind the upstream holds for a session at the ticks lo..hi,
\* in date order
Rows(p, k, kind, lo, hi) ==
    LET ticks == IF kind = "telemetry" THEN p.tel ELSE p.loc
        n == p.drivers
        first == IF lo < 0 THEN 0 ELSE lo
        last == IF hi > chunk_mins * max_chunks THEN chunk_mins * max_chunks ELSE hi
        all == [j \in 1..((last - first + 1) * n) |->
                   LET t == first + ((j - 1) \div n)
                       car == ((j - 1) % n) + 1
                   IN  Rec(k, kind, date_start(k) + t, car,
                           IF kind = "location" THEN Track(p.track, t, car)
                           ELSE Point(NoCoord, NoCoord))]
    IN  SelectSeq(all, LAMBDA r : (r.date - date_start(k)) \in ticks)

\* every record of one kind the upstream holds for a session
UpstreamRecords(p, k, kind) == Rows(p, k, kind, 0, chunk_mins * max_chunks)

\* the weather records the upstream holds for a session at the ticks lo..hi:
\* one a window, a minute after its start (GET /weather)
WeatherRows(k, lo, hi) ==
    LET all == [j \in 1..(hi - lo + 1) |->
                   Rec(k, "weather", date_start(k) + lo + j - 1, 0, Point(NoCoord, NoCoord))]
    IN  SelectSeq(all, LAMBDA r : (r.date - date_start(k)) % chunk_mins = 1)

\* GET /car_data or /location with "date>" c_start and "date<" c_end
FetchWindow(k, kind, c_start, c_end) ==
    SelectSeq(Rows(profile, k, kind, c_start - date_start(k), c_end - date_start(k)),
              LAMBDA r : r.date > c_start /\ r.date < c_end)

\* ------------------------------------------------------ BackgroundIngestor
NoSession ==
    [present |-> FALSE, telemetry |-> <<>>, location |-> <<>>, weather |-> <<>>,
     last_ingested |-> None]

EmptySession ==
    [present |-> TRUE, telemetry |-> <<>>, location |-> <<>>, weather |-> <<>>,
     last_ingested |-> None]

\* get_session_data that hands out a fresh entry at every call
get_session_data_Resetting(s, k) == [s EXCEPT ![k] = EmptySession]

\* get_session_data that makes an entry for every key that has none
get_session_data_Sharing(s, k) ==
    [j \in Keys |-> IF ~s[j].present THEN EmptySession ELSE s[j]]

\* get_session_data: the sessions after the call (the key's entry is what it returns)
get_session_data(s, k) ==
    IF ~s[k].present THEN [s EXCEPT ![k] = EmptySession] ELSE s

\* extend that replaces the list
Extend_Replacing(list, new) == new

\* list.extend
Extend(list, new) == list \o new

NewTask(k, start) ==
    [session_key |-> k, start_date |-> start, pc |-> "check", current_dt |-> None,
     i |-> 0, empty_count |-> 0, c_end |-> None, new_tel |-> <<>>, new_loc |-> <<>>,
     done |-> 0, bounds |-> NoBounds, error |-> "none"]

NoResp ==
    [handler |-> "none", session_key |-> 0, status |-> 0, cause |-> "none",
     last_date |-> None, telemetry |-> <<>>, location |-> <<>>, buffer_size |-> 0,
     is_ingesting |-> FALSE, track_path |-> <<>>, track_layout |-> <<>>,
     weather |-> <<>>]

TaskIds == 1..Len(tasks)

\* the pc values of a task that is inside the for loop of ingest
LoopPcs == {"fetch", "normalize", "bounds", "store", "ext_tel", "ext_loc", "cursor"}

Requested(k) == \E t \in TaskIds : tasks[t].session_key = k

\* no geometry computation made yet
NoOut == [op |-> "none", error |-> "none", bounds |-> NoBounds, pts |-> <<>>, ops |-> <<>>]

\* no request of the mission bridge has been answered yet
NoAnswer == [handler |-> "none", code |-> 0, body |-> "none"]

\* no call of get_session_data is under way on the event loop
NoCall == [handler |-> "none", session_key |-> 0, at |-> "none"]

\* a task that has not called get_session_data yet
NoRef == [at |-> "none", inst |-> 0]

\* no dict has been made for any key; refs has one entry per task
NoBuffers == [made |-> [k \in Keys |-> 0], refs |-> <<>>, call |-> NoCall]

\* a client that has not polled yet
NoPoller == [since |-> None, telemetry |-> {}, location |-> {}]

\* ------------------------------------------------------------------- Init
InitCommon ==
    /\ sessions = [k \in Keys |-> NoSession]
    /\ active_tasks = {}
    /\ tasks = <<>>
    /\ disk = [k \in Keys |-> "absent"]
    /\ resp = NoResp
    /\ session_bounds = [k \in Keys |-> NoBounds]
    /\ cached_drivers = {}
    /\ points = <<>>
    /\ out = NoOut
    /\ scripts = <<>>
    /\ loop = "free"
    /\ answer = NoAnswer
    /\ poller = NoPoller
    /\ buffers = NoBuffers

\* one short session, several catchup requests, upstream faults
InitShort ==
    /\ InitCommon
    /\ profile \in ShortProfiles
    /\ asked = {1}
    /\ quota = MaxCatchups
    /\ faults = MaxFaults
    /\ provisions = 0

\* two short sessions, a catchup request for each or two for one, a healthy upstream
InitTwoKeys ==
    /\ InitCommon
    /\ profile \in ShortProfiles
    /\ asked = Keys
    /\ quota = Cardinality(Keys)
    /\ faults = 0
    /\ provisions = 0

\* one session of up to four hours, one catchup request, a healthy upstream
InitLong ==
    /\ InitCommon
    /\ profile \in LongProfiles
    /\ asked = {1}
    /\ quota = 1
    /\ faults = 0
    /\ provisions = 0

\* one session that clients provision while it is ingested, an upstream fault
InitProvision ==
    /\ InitCommon
    /\ profile \in ProvisionProfiles
    /\ asked = {1}
    /\ quota = 1
    /\ faults = MaxFaults
    /\ provisions = MaxProvisions

Init == InitShort \/ InitTwoKeys \/ InitLong \/ InitProvision

\* ----------------------------------------------------------------- ingest
\* lines 56-57: the membership test; a task that finds the key returns
IngestCheck(t) ==
    /\ tasks[t].pc = "check"
    /\ tasks' = [tasks EXCEPT ![t].pc =
                    IF tasks[t].session_key \in active_tasks THEN "skipped" ELSE "add"]
    /\ resp' = NoResp
    /\ UNCHANGED <<sessions, active_tasks, disk, profile, asked, quota, faults,
                 svc, provisions, geo, app, poller, buffers>>

\* line 58
IngestAdd(t) ==
    /\ tasks[t].pc = "add"
    /\ active_tasks' = active_tasks \cup {tasks[t].session_key}
    /\ tasks' = [tasks EXCEPT ![t].pc = "get"]
    /\ resp' = NoResp
    /\ UNCHANGED <<sessions, disk, profile, asked, quota, faults,
                 svc, provisions, geo, app, poller, buffers>>

\* lines 63-74: the buffer of the key, and the locals of the loop
IngestGetSession(t) ==
    /\ tasks[t].pc = "get"
    /\ sessions' = get_session_data(sessions, tasks[t].session_key)
    /\ tasks' = [tasks EXCEPT ![t].pc = "fetch",
                              ![t].current_dt = tasks[t].start_date,
                              ![t].i = 0,
                              ![t].empty_count = 0]
    /\ resp' = NoResp
    /\ UNCHANGED <<active_tasks, disk, profile, asked, quota, faults,
                 svc, provisions, geo, app, poller, buffers>>

\* NextIter with a range one window too long
NextIter_OneMore(T) ==
    [T EXCEPT !.i = T.i + 1,
              !.pc = IF T.i + 1 <= max_chunks THEN "fetch" ELSE "save",
              !.new_tel = <<>>, !.new_loc = <<>>]

\* the for statement and the sleep at the end of the body: the next window, or the
\* end of range(max_chunks)
NextIter(T) ==
    [T EXCEPT !.i = T.i + 1,
              !.pc = IF T.i + 1 < max_chunks THEN "fetch" ELSE "save",
              !.new_tel = <<>>, !.new_loc = <<>>]

\* what one GET of the loop can come to
Outcomes == {"ok", "http_error", "raises", "object"}
Cost(o) == IF o = "ok" THEN 0 ELSE 1

\* "resp.json() if resp.status_code == 200 else []"; a JSON object stands for
\* its keys, which is what extend takes from it
Payload(k, kind, o, c_start, c_end) ==
    CASE o = "ok" -> FetchWindow(k, kind, c_start, c_end)
      [] o = "object" -> <<KeyOfObject(k, kind)>>
      [] OTHER -> <<>>

\* FetchStep that goes on until more than EMPTY_LIMIT windows in a row were empty
FetchStep_LateBreak(T, to, lo) ==
    LET k == T.session_key
        c_start == T.current_dt
        c_end == T.current_dt + chunk_mins
        new_tel == Payload(k, "telemetry", to, c_start, c_end)
        new_loc == Payload(k, "location", lo, c_start, c_end)
        W == [T EXCEPT !.current_dt = c_end, !.c_end = c_end]
    IN  IF to = "raises" \/ lo = "raises"
        THEN [W EXCEPT !.pc = "finally", !.error = "RequestException"]
        ELSE IF new_tel = <<>> /\ new_loc = <<>>
        THEN IF T.empty_count + 1 > EMPTY_LIMIT
             THEN [W EXCEPT !.empty_count = T.empty_count + 1, !.pc = "save"]
             ELSE NextIter([W EXCEPT !.empty_count = T.empty_count + 1])
        ELSE IF lo = "object"
        THEN [W EXCEPT !.empty_count = 0, !.pc = "finally", !.error = "AttributeError"]
        ELSE [W EXCEPT !.empty_count = 0, !.pc = "normalize", !.done = 0,
                       !.new_tel = new_tel, !.new_loc = new_loc]

\* FetchStep that keeps the count of empty windows when a window has records
FetchStep_NoReset(T, to, lo) ==
    LET k == T.session_key
        c_start == T.current_dt
        c_end == T.current_dt + chunk_mins
        new_tel == Payload(k, "telemetry", to, c_start, c_end)
        new_loc == Payload(k, "location", lo, c_start, c_end)
        W == [T EXCEPT !.current_dt = c_end, !.c_end = c_end]
    IN  IF to = "raises" \/ lo = "raises"
        THEN [W EXCEPT !.pc = "finally", !.error = "RequestException"]
        ELSE IF new_tel = <<>> /\ new_loc = <<>>
        THEN IF T.empty_count + 1 >= EMPTY_LIMIT
             THEN [W EXCEPT !.empty_count = T.empty_count + 1, !.pc = "save"]
             ELSE NextIter([W EXCEPT !.empty_count = T.empty_count + 1])
        ELSE IF lo = "object"
        THEN [W EXCEPT !.pc = "finally", !.error = "AttributeError"]
        ELSE [W EXCEPT !.pc = "normalize", !.done = 0,
                       !.new_tel = new_tel, !.new_loc = new_loc]

\* lines 76-108: one window, from the two GETs to the decision on what they returned
FetchStep(T, to, lo) ==
    LET k == T.session_key
        c_start == T.current_dt
        c_end == T.current_dt + chunk_mins
        new_tel == Payload(k, "telemetry", to, c_start, c_end)
        new_loc == Payload(k, "location", lo, c_start, c_end)
        W == [T EXCEPT !.current_dt = c_end, !.c_end = c_end]
    IN  IF to = "raises" \/ lo = "raises"
        THEN [W EXCEPT !.pc = "finally", !.error = "RequestException"]
        ELSE IF new_tel = <<>> /\ new_loc = <<>>
        THEN IF T.empty_count + 1 >= EMPTY_LIMIT
             THEN [W EXCEPT !.empty_count = T.empty_count + 1, !.pc = "save"]
             ELSE NextIter([W EXCEPT !.empty_count = T.empty_count + 1])
        ELSE IF lo = "object"
        THEN [W EXCEPT !.empty_count = 0, !.pc = "finally", !.error = "AttributeError"]
        ELSE [W EXCEPT !.empty_count = 0, !.pc = "normalize", !.done = 0,
                       !.new_tel = new_tel, !.new_loc = new_loc]

IngestFetch(t) ==
    /\ tasks[t].pc = "fetch"
    /\ \E to \in Outcomes, lo \in Outcomes :
          /\ Cost(to) + Cost(lo) <= faults
          /\ to = "raises" => lo = "ok"
          /\ faults' = faults - (Cost(to) + Cost(lo))
          /\ tasks' = [tasks EXCEPT ![t] = FetchStep(tasks[t], to, lo)]
    /\ resp' = NoResp
    /\ UNCHANGED <<sessions, active_tasks, disk, profile, asked, quota,
                 svc, provisions, geo, app, poller, buffers>>

\* the location sample calculate_session_bounds and provision_session ask for
\* (lines 69-74, 147-152): the first sample_mins minutes of the first driver
SampleOf(p, k) ==
    SelectSeq(Rows(p, k, "location", 0, sample_mins),
              LAMBDA r : /\ r.date > date_start(k)
                         /\ r.date < date_start(k) + sample_mins
                         /\ r.driver_number = 1)

\* the sample of every scenario, and what lines 80-104 make of it
Samples == [p \in Profiles, k \in Keys |-> SampleOf(p, k)]
SessionBounds == [p \in Profiles, k \in Keys |-> SampleBounds(Samples[p, k])]

Sample(k) == Samples[profile, k]

\* what the GET of a sample can come to: the rows, or an exception, which both
\* callers turn into an empty list (lines 76-78, 154-155)
SampleOutcomes == {"ok", "raises"}
Fetched_Sample(k, o) == IF o = "ok" THEN Sample(k) ELSE <<>>
Calculated(k, o) == IF o = "ok" THEN SessionBounds[profile, k] ELSE SampleBounds(<<>>)

\* a location row with the coordinates normalize_point returned (line 107)
Moved(loc, bounds) ==
    LET q == normalize_point(bounds, Point(loc.x, loc.y))
    IN  [loc EXCEPT !.x = q.x, !.y = q.y]

\* lines 104-108 and 115-116: the rows of the window not yet gone through, up to
\* the first one that needs bounds the cache does not hold
IngestNormalize(t) ==
    LET T == tasks[t]
        k == T.session_key
        b == session_bounds[k]
        rest == {n \in (T.done + 1)..Len(T.new_loc) : ~IsNone(T.new_loc[n].x)}
    IN  /\ T.pc = "normalize"
        /\ tasks' = [tasks EXCEPT ![t] =
              IF rest = {} THEN [T EXCEPT !.pc = "ext_tel", !.done = 0]
              ELSE IF ~b.cached
              THEN [T EXCEPT !.pc = "bounds",
                             !.done = (CHOOSE n \in rest : \A m \in rest : n <= m) - 1]
              ELSE IF \E n \in rest : Unsubtractable(b, Point(T.new_loc[n].x, T.new_loc[n].y))
              THEN [T EXCEPT !.pc = "finally", !.error = "TypeError"]
              ELSE [T EXCEPT !.pc = "ext_tel", !.done = 0,
                             !.new_loc = [n \in 1..Len(T.new_loc) |->
                                             IF n \in rest THEN Moved(T.new_loc[n], b)
                                             ELSE T.new_loc[n]]]]
        /\ resp' = NoResp
        /\ UNCHANGED <<sessions, active_tasks, disk, profile, asked, quota, faults,
                       svc, provisions, geo, app, poller, buffers>>

\* lines 49-97, called by normalize_point for the row after done: the cache is
\* looked at again, then the drivers and the sample are fetched; without bounds
\* the row keeps its raw coordinates (line 118)
IngestBounds(t) ==
    LET T == tasks[t]
        k == T.session_key
    IN  /\ T.pc = "bounds"
        /\ IF session_bounds[k].cached
           THEN /\ tasks' = [tasks EXCEPT ![t].pc = "normalize"]
                /\ UNCHANGED <<faults, cached_drivers>>
           ELSE \E o \in SampleOutcomes :
                   /\ Cost(o) <= faults
                   /\ faults' = faults - Cost(o)
                   /\ cached_drivers' = cached_drivers \cup {k}
                   /\ LET b == Calculated(k, o)
                      IN  tasks' = [tasks EXCEPT ![t] =
                             IF b.cached THEN [T EXCEPT !.pc = "store", !.bounds = b]
                             ELSE [T EXCEPT !.pc = "normalize", !.done = T.done + 1]]
        /\ resp' = NoResp
        /\ UNCHANGED <<sessions, active_tasks, disk, profile, asked, quota,
                       session_bounds, provisions, geo, app, poller, buffers>>

\* lines 99-104: the computed bounds go into the cache
IngestStore(t) ==
    /\ tasks[t].pc = "store"
    /\ session_bounds' = [session_bounds EXCEPT ![tasks[t].session_key] = tasks[t].bounds]
    /\ tasks' = [tasks EXCEPT ![t].pc = "normalize", ![t].bounds = NoBounds]
    /\ resp' = NoResp
    /\ UNCHANGED <<sessions, active_tasks, disk, profile, asked, quota, faults,
                   cached_drivers, provisions, geo, app, poller, buffers>>

\* line 110
IngestExtendTel(t) ==
    /\ tasks[t].pc = "ext_tel"
    /\ sessions' = [sessions EXCEPT ![tasks[t].session_key].telemetry =
                       Extend(@, tasks[t].new_tel)]
    /\ tasks' = [tasks EXCEPT ![t].pc = "ext_loc"]
    /\ resp' = NoResp
    /\ UNCHANGED <<active_tasks, disk, profile, asked, quota, faults,
                 svc, provisions, geo, app, poller, buffers>>

\* line 111
IngestExtendLoc(t) ==
    /\ tasks[t].pc = "ext_loc"
    /\ sessions' = [sessions EXCEPT ![tasks[t].session_key].location =
                       Extend(@, tasks[t].new_loc)]
    /\ tasks' = [tasks EXCEPT ![t].pc = "cursor"]
    /\ resp' = NoResp
    /\ UNCHANGED <<active_tasks, disk, profile, asked, quota, faults,
                 svc, provisions, geo, app, poller, buffers>>

\* lines 112-122
IngestSetCursor(t) ==
    /\ tasks[t].pc = "cursor"
    /\ sessions' = [sessions EXCEPT ![tasks[t].session_key].last_ingested = tasks[t].c_end]
    /\ tasks' = [tasks EXCEPT ![t] = NextIter(tasks[t])]
    /\ resp' = NoResp
    /\ UNCHANGED <<active_tasks, disk, profile, asked, quota, faults,
                 svc, provisions, geo, app, poller, buffers>>

\* lines 124-136: open(save_path, 'w') empties the file, then json.dump fails:
\* the module never imports json. The handler of line 135 prints the NameError.
IngestSave(t) ==
    /\ tasks[t].pc = "save"
    /\ disk' = [disk EXCEPT ![tasks[t].session_key] = "empty"]
    /\ tasks' = [tasks EXCEPT ![t].pc = "finally", ![t].error = "NameError"]
    /\ resp' = NoResp
    /\ UNCHANGED <<sessions, active_tasks, profile, asked, quota, faults,
                 svc, provisions, geo, app, poller, buffers>>

\* lines 137-138: set.remove raises KeyError when the key is not in the set, and
\* nothing catches what a finally clause raises
IngestFinally(t) ==
    /\ tasks[t].pc = "finally"
    /\ IF tasks[t].session_key \in active_tasks
       THEN /\ active_tasks' = active_tasks \ {tasks[t].session_key}
            /\ tasks' = [tasks EXCEPT ![t].pc = "done"]
       ELSE /\ active_tasks' = active_tasks
            /\ tasks' = [tasks EXCEPT ![t].pc = "raised", ![t].error = "KeyError"]
    /\ resp' = NoResp
    /\ UNCHANGED <<sessions, disk, profile, asked, quota, faults,
                 svc, provisions, geo, app, poller, buffers>>

\* --------------------------------------------------------------- handlers
\* "t['date'] > last_date" cannot be evaluated on a str
Unreadable(list) == \E n \in 1..Len(list) : list[n].form = "string"

\* NewerThan that serves the newest record first
NewerThan_NewestFirst(list, last_date) ==
    LET newer == SelectSeq(list, LAMBDA r : r.date > last_date)
    IN  [n \in 1..Len(newer) |-> newer[Len(newer) + 1 - n]]

\* NewerThan with ">=" for ">"
NewerThan_OrEqual(list, last_date) == SelectSeq(list, LAMBDA r : r.date >= last_date)

\* lines 352-353: the records newer than last_date, in the order of the list
NewerThan(list, last_date) == SelectSeq(list, LAMBDA r : r.date > last_date)

\* Truncate keeping the most recent records
Truncate_MostRecent(list) ==
    IF Len(list) > POLL_LIMIT
    THEN SubSeq(list, Len(list) - POLL_LIMIT + 1, Len(list))
    ELSE list

\* lines 356-357
Truncate(list) == IF Len(list) > POLL_LIMIT THEN SubSeq(list, 1, POLL_LIMIT) ELSE list

\* the last_date values a poller sends: none, or a date of the session
LastDates(k) == {None} \cup {date_start(k) + o : o \in {1}}

\* GET /openf1/catchup of a historical session (lines 276-305): the task is
\* scheduled, and runs after the response has been sent
Catchup(k) ==
    /\ quota > 0
    /\ quota' = quota - 1
    /\ tasks' = Append(tasks, NewTask(k, date_start(k)))
    /\ sessions' = get_session_data(sessions, k)
    /\ resp' = [NoResp EXCEPT !.handler = "catchup", !.session_key = k, !.status = 200,
                              !.telemetry = sessions'[k].telemetry,
                              !.location = sessions'[k].location,
                              !.buffer_size = Len(sessions'[k].telemetry)]
    /\ UNCHANGED <<active_tasks, disk, profile, asked, faults,
                 svc, provisions, geo, app, poller, buffers>>

\* a live handler that answers only once the first window is in the buffer
Live_Waiting(k, last_date_arg) ==
    LET last_date == IF last_date_arg = None THEN date_start(k) ELSE last_date_arg
        data == sessions[k]
    IN  /\ data.present
        /\ data.telemetry # <<>> \/ data.location # <<>>
        /\ resp' = [NoResp EXCEPT
                         !.handler = "live", !.session_key = k,
                         !.status = IF Unreadable(data.telemetry) \/ Unreadable(data.location)
                                    THEN 500 ELSE 200,
                         !.last_date = last_date,
                         !.telemetry = Truncate(NewerThan(data.telemetry, last_date)),
                         !.location = Truncate(NewerThan(data.location, last_date)),
                         !.buffer_size = Len(data.telemetry),
                         !.is_ingesting = k \in active_tasks]
        /\ UNCHANGED <<sessions, active_tasks, tasks, disk, profile, asked, quota, faults,
                       svc, provisions, geo, app, buffers>>

\* GET /openf1/live of a historical session (lines 326-378)
Live(k, last_date_arg) ==
    LET last_date == IF last_date_arg = None THEN date_start(k) ELSE last_date_arg
        data == get_session_data(sessions, k)[k]
        is_ingesting == k \in active_tasks
    IN  /\ sessions' = get_session_data(sessions, k)
        /\ IF Unreadable(data.telemetry) \/ Unreadable(data.location)
           THEN resp' = [NoResp EXCEPT !.handler = "live", !.session_key = k,
                                          !.status = 500, !.cause = "TypeError",
                                          !.last_date = last_date]
           ELSE resp' = [NoResp EXCEPT
                               !.handler = "live", !.session_key = k, !.status = 200,
                               !.last_date = last_date,
                               !.telemetry = Truncate(NewerThan(data.telemetry, last_date)),
                               !.location = Truncate(NewerThan(data.location, last_date)),
                               !.buffer_size = Len(data.telemetry),
                               !.is_ingesting = is_ingesting]
        /\ UNCHANGED <<active_tasks, tasks, disk, profile, asked, quota, faults,
                 svc, provisions, geo, app, buffers>>

\* calculate_session_bounds without the cache check of lines 49-50
calculate_session_bounds_Dropping(c, k, o) == [c EXCEPT ![k] = Calculated(k, o)]

\* calculate_session_bounds (lines 49-104) on the cache c with the sample GET
\* coming to o: the cache after the call; the key's entry is what it returns
calculate_session_bounds(c, k, o) ==
    IF c[k].cached THEN c
    ELSE LET b == Calculated(k, o)
         IN  IF b.cached THEN [c EXCEPT ![k] = b] ELSE c

\* whether a call of calculate_session_bounds on the cache c sends the sample GET
Fetches(c, k) == IF c[k].cached THEN 0 ELSE 1

\* a path command as provision_session writes it (lines 185-186)
Cmd(c, pt) == [cmd |-> c, x |-> pt.x, y |-> pt.y]

\* "max(1, len(locs) // 1000)" (line 161; add_historical_race_full.py line 205
\* with 1500)
StepOf(len, target) == IF len \div target < 1 THEN 1 ELSE len \div target

\* "locs[::step]": the points at the indices 0, step, 2 * step, ...
Slice(locs, step) ==
    [j \in 1..((Len(locs) + step - 1) \div step) |-> locs[1 + (j - 1) * step]]

\* lines 161-162
Subsample(locs, target) == Slice(locs, StepOf(Len(locs), target))

\* lines 157-240 of provision_session on the sample locs, b1 and b2 being the
\* bounds normalize_point has for the first and for the second point: the path
\* commands and the layout, or the exception that ends the request. The module
\* never imports math, so line 176 raises NameError at the second point.
provision_path(b1, b2, locs) ==
    LET none == [error |-> "none", ops |-> <<>>, layout |-> <<>>]
        sampled == Subsample(locs, provision_target)
        p1 == normalize_point(b1, Point(sampled[1].x, sampled[1].y))
    IN  IF locs = <<>> THEN none
        ELSE IF IsNone(sampled[1].x) \/ IsNone(sampled[1].y)
        THEN [none EXCEPT !.error = "TypeError"]
        ELSE IF Len(sampled) = 1
        THEN [none EXCEPT !.ops = <<Cmd("M", p1)>>, !.layout = <<p1>>]
        ELSE IF Unsubtractable(b2, Point(sampled[2].x, sampled[2].y))
        THEN [none EXCEPT !.error = "TypeError"]
        ELSE [none EXCEPT !.error = "NameError"]

\* GET /openf1/provision of a historical session (lines 233-245) and
\* provision_session (lines 124-240). os[1] is what the sample GET of line 129
\* comes to, os[2] the one of line 147, os[3] and os[4] the ones normalize_point
\* sends for the first and the second point while there are still no bounds.
Provision(k) ==
    /\ provisions > 0
    /\ provisions' = provisions - 1
    /\ \E os \in [1..4 -> SampleOutcomes] :
          LET c1 == calculate_session_bounds(session_bounds, k, os[1])
              locs == Fetched_Sample(k, os[2])
              c2 == IF locs = <<>> THEN c1 ELSE calculate_session_bounds(c1, k, os[3])
              second == Len(locs) >= 2 /\ ~IsNone(locs[1].x) /\ ~IsNone(locs[1].y)
              c3 == IF second THEN calculate_session_bounds(c2, k, os[4]) ELSE c2
              sent == <<Fetches(session_bounds, k), 1,
                        IF locs = <<>> THEN 0 ELSE Fetches(c1, k),
                        IF second THEN Fetches(c2, k) ELSE 0>>
              cost == Cost(os[1]) + Cost(os[2]) + Cost(os[3]) + Cost(os[4])
              made == provision_path(c2[k], c3[k], locs)
          IN  /\ \A n \in 1..4 : sent[n] = 0 => os[n] = "ok"
              /\ cost <= faults
              /\ faults' = faults - cost
              /\ session_bounds' = c3
              /\ resp' = [NoResp EXCEPT
                              !.handler = "provision", !.session_key = k,
                              !.status = IF made.error = "none" THEN 200 ELSE 500,
                              !.cause = made.error,
                              !.track_path = made.ops,
                              !.track_layout = made.layout]
    /\ cached_drivers' = cached_drivers \cup {k}
    /\ UNCHANGED <<sessions, active_tasks, tasks, disk, profile, asked, quota, geo, app, poller, buffers>>

\* get_session_info raises (lines 234, 277, 328, 342): the handler answers 500
\* before it touches the ingestor or the service's caches
SessionInfoFails(k, h) ==
    /\ faults > 0
    /\ faults' = faults - 1
    /\ IF h = "provision"
       THEN provisions > 0 /\ provisions' = provisions - 1
       ELSE provisions' = provisions
    /\ resp' = [NoResp EXCEPT !.handler = h, !.session_key = k, !.status = 500,
                              !.cause = "session_info"]
    /\ UNCHANGED <<sessions, active_tasks, tasks, disk, profile, asked, quota, svc, geo, app, poller, buffers>>

Next ==
    \/ \E k \in asked : Catchup(k)
    \/ \E k \in asked : \E d \in LastDates(k) : Live(k, d) /\ UNCHANGED poller
    \/ \E k \in asked : Provision(k)
    \/ \E k \in asked : \E h \in {"catchup", "live", "provision"} : SessionInfoFails(k, h)
    \/ \E t \in TaskIds : IngestCheck(t)
    \/ \E t \in TaskIds : IngestAdd(t)
    \/ \E t \in TaskIds : IngestGetSession(t)
    \/ \E t \in TaskIds : IngestFetch(t)
    \/ \E t \in TaskIds : IngestNormalize(t)
    \/ \E t \in TaskIds : IngestBounds(t)
    \/ \E t \in TaskIds : IngestStore(t)
    \/ \E t \in TaskIds : IngestExtendTel(t)
    \/ \E t \in TaskIds : IngestExtendLoc(t)
    \/ \E t \in TaskIds : IngestSetCursor(t)
    \/ \E t \in TaskIds : IngestSave(t)
    \/ \E t \in TaskIds : IngestFinally(t)

Spec == Init /\ [][Next]_vars

\* every step a background task can take
IngestStep(t) ==
    \/ IngestCheck(t) \/ IngestAdd(t) \/ IngestGetSession(t) \/ IngestFetch(t)
    \/ IngestNormalize(t) \/ IngestBounds(t) \/ IngestStore(t)
    \/ IngestExtendTel(t) \/ IngestExtendLoc(t) \/ IngestSetCursor(t)
    \/ IngestSave(t) \/ IngestFinally(t)

\* the worker threads of the server keep running: a task that can step does
Scheduled == \E t \in TaskIds : IngestStep(t)
FairSpec == Spec /\ WF_vars(Scheduled)

\* ---------------------------------------------------------------- geometry
(* The functions of the service and of generate_svg_paths.py on their own:  *)
(* a sequence of points is chosen, and each function is applied to it.      *)
Complete == {Point(Whole(0), Whole(0)), Point(Whole(30), Whole(0)),
             Point(Whole(30), Whole(30)), Point(Whole(5), Whole(5)),
             Point(Whole(0 - 100), Whole(0))}
Incomplete_Points == {Point(NoCoord, Whole(5)), Point(Whole(7), NoCoord)}

PointSeqs ==
    UNION ({[1..n -> Complete] : n \in 0..MaxPoints}
           \cup {[1..n -> Complete \cup Incomplete_Points] : n \in 0..MaxSample})

GeoInit ==
    /\ sessions = [k \in Keys |-> NoSession]
    /\ active_tasks = {}
    /\ tasks = <<>>
    /\ disk = [k \in Keys |-> "absent"]
    /\ resp = NoResp
    /\ profile = FiveWindows
    /\ asked = {}
    /\ quota = 0
    /\ faults = 0
    /\ session_bounds = [k \in Keys |-> NoBounds]
    /\ cached_drivers = {}
    /\ provisions = 0
    /\ points \in PointSeqs
    /\ out = NoOut
    /\ scripts = <<>>
    /\ loop = "free"
    /\ answer = NoAnswer
    /\ poller = NoPoller
    /\ buffers = NoBuffers

\* everything but the geometry
others == <<sessions, active_tasks, tasks, disk, resp, profile, asked, quota, faults,
          svc, provisions, app, poller, buffers>>

\* calculate_session_bounds, lines 80-104, on the sample
CalculateBounds ==
    /\ out.op = "none"
    /\ out' = [NoOut EXCEPT !.op = "bounds", !.bounds = SampleBounds(points)]
    /\ UNCHANGED <<points, others>>

\* normalize_point on every point of the sample the bounds were derived from;
\* a point without a coordinate raises TypeError and leaves no position
NormalizeSample ==
    /\ out.op = "bounds"
    /\ out.bounds.cached
    /\ out' = [out EXCEPT !.op = "normalized",
                          !.pts = [n \in 1..Len(points) |->
                                     IF Unsubtractable(out.bounds, points[n])
                                     THEN Point(NoCoord, NoCoord)
                                     ELSE normalize_point(out.bounds, points[n])]]
    /\ UNCHANGED <<points, others>>

\* generate_svg_path(points)
GenerateSvgPath ==
    /\ out.op = "none"
    /\ LET made == generate_svg_path(points)
       IN  out' = [NoOut EXCEPT !.op = "svg", !.error = made.error, !.ops = made.ops]
    /\ UNCHANGED <<points, others>>

\* the path provision_session makes of the sample, with the bounds of the sample
ProvisionPath ==
    /\ out.op = "none"
    /\ LET b == SampleBounds(points)
           made == provision_path(b, b, points)
       IN  out' = [NoOut EXCEPT !.op = "provision", !.bounds = b, !.error = made.error,
                                !.ops = made.ops, !.pts = made.layout]
    /\ UNCHANGED <<points, others>>

GeoNext == CalculateBounds \/ NormalizeSample \/ GenerateSvgPath \/ ProvisionPath

GeoSpec == GeoInit /\ [][GeoNext]_vars

\* ----------------------------------------------------------------- polling
\* one historical session that is ingested once on a healthy upstream while a
\* client polls it
PollInit ==
    /\ InitCommon
    /\ profile \in PollProfiles
    /\ asked = {1}
    /\ quota = 1
    /\ faults = 0
    /\ provisions = 0

\* the date and car of every record of a response
ArrivalSet(list) == {<<list[n].date, list[n].driver_number>> : n \in 1..Len(list)}

\* the greatest date of the records of a response, or the cursor as it was
Greatest(since, tel, loc) ==
    LET dates == {tel[n].date : n \in 1..Len(tel)} \cup {loc[n].date : n \in 1..Len(loc)}
                 \cup (IF since = None THEN {} ELSE {since})
    IN  IF dates = {} THEN None ELSE CHOOSE d \in dates : \A e \in dates : e <= d

\* a poll of the client: GET /openf1/live with the greatest date it has
\* received so far as last_date (none at first, which the handler replaces by
\* date_start, lines 327-336); it keeps what the answer holds
Poll(k) ==
    /\ Live(k, poller.since)
    /\ poller' = IF resp'.status = 200
                 THEN [since |-> Greatest(poller.since, resp'.telemetry, resp'.location),
                       telemetry |-> poller.telemetry \cup ArrivalSet(resp'.telemetry),
                       location |-> poller.location \cup ArrivalSet(resp'.location)]
                 ELSE poller

PollNext ==
    \/ \E k \in asked : Catchup(k)
    \/ \E k \in asked : Poll(k)
    \/ \E t \in TaskIds : IngestStep(t)

PollSpec == PollInit /\ [][PollNext]_vars

\* ---------------------------------------------------------- mission bridge
\* apps/bridge/main.py: a second server, with its own event loop. Its async
\* handlers run on the event loop, one at a time; run_script is a sync
\* background task and waits for its subprocess in a worker thread, while
\* delete_mission_endpoint waits for its subprocess on the event loop itself.

\* the races a client asks missions for
Races == {"monza", "spa"}

\* the circuit_id of a delete request: absent, empty or given
Circuits == {"absent", "", "monza"}

\* what Popen and process.wait() end in: a return code, or an exception
Exits == {"exited_ok", "exited_error", "failed"}

Body(status, service, message, detail) ==
    [status |-> status, service |-> service, message |-> message, detail |-> detail]

Online == [handler |-> "status", code |-> 200,
           body |-> Body("online", "f1-telemetry-bridge", "absent", "absent")]

BridgeInit ==
    /\ sessions = [k \in Keys |-> NoSession]
    /\ active_tasks = {}
    /\ tasks = <<>>
    /\ disk = [k \in Keys |-> "absent"]
    /\ resp = NoResp
    /\ profile = FiveWindows
    /\ asked = {}
    /\ quota = 0
    /\ faults = 0
    /\ session_bounds = [k \in Keys |-> NoBounds]
    /\ cached_drivers = {}
    /\ provisions = 0
    /\ points = <<>>
    /\ out = NoOut
    /\ scripts = <<>>
    /\ loop = "free"
    /\ answer = NoAnswer
    /\ poller = NoPoller
    /\ buffers = NoBuffers

\* everything but the mission bridge
rest_of_bridge == <<sessions, active_tasks, tasks, disk, resp, profile, asked, quota,
                    faults, svc, provisions, geo, poller, buffers>>

\* a status handler that reports the bridge busy while a mission script runs
get_status_Busy ==
    /\ loop = "free"
    /\ answer' = IF \E i \in 1..Len(scripts) : scripts[i].pc = "running"
                 THEN [handler |-> "status", code |-> 503,
                       body |-> Body("busy", "f1-telemetry-bridge", "absent", "absent")]
                 ELSE Online
    /\ UNCHANGED <<scripts, loop, rest_of_bridge>>

\* GET /status, lines 23-28
get_status ==
    /\ loop = "free"
    /\ answer' = Online
    /\ UNCHANGED <<scripts, loop, rest_of_bridge>>

\* POST /add-mission, lines 30-46: the task is added and the answer returned
add_mission(race_name) ==
    /\ loop = "free"
    /\ Len(scripts) < MaxMissions
    /\ scripts' = Append(scripts, [race_name |-> race_name, pc |-> "queued"])
    /\ answer' = [handler |-> "add-mission", code |-> 200,
                  body |-> Body("accepted", "absent", race_name, "absent")]
    /\ UNCHANGED <<loop, rest_of_bridge>>

\* run_script, lines 48-58: the event loop hands the task to a worker thread,
\* where Popen starts the script or raises
run_script(i) ==
    /\ loop = "free"
    /\ scripts[i].pc = "queued"
    /\ \E pc \in {"running", "failed"} : scripts' = [scripts EXCEPT ![i].pc = pc]
    /\ UNCHANGED <<loop, answer, rest_of_bridge>>

\* run_script, lines 60-69: process.wait() returns in the worker thread
script_exit(i) ==
    /\ scripts[i].pc = "running"
    /\ \E pc \in Exits : scripts' = [scripts EXCEPT ![i].pc = pc]
    /\ UNCHANGED <<loop, answer, rest_of_bridge>>

\* POST /delete-mission, lines 71-98: without a circuit_id 400; otherwise the
\* handler starts the delete script and waits for it on the event loop, or
\* Popen raises, which run_delete_script swallows
delete_mission_endpoint(circuit_id) ==
    /\ loop = "free"
    /\ IF circuit_id \in {"absent", ""}
       THEN /\ answer' = [handler |-> "delete-mission", code |-> 400,
                          body |-> Body("absent", "absent", "absent", "circuit_id is required")]
            /\ UNCHANGED loop
       ELSE \/ /\ loop' = "delete"
               /\ UNCHANGED answer
            \/ /\ answer' = [handler |-> "delete-mission", code |-> 200,
                             body |-> Body("success", "absent", circuit_id, "absent")]
               /\ UNCHANGED loop
    /\ UNCHANGED <<scripts, rest_of_bridge>>

\* delete_mission_endpoint, lines 84-86 and 98-106: the delete script has
\* exited, with whatever code, and the handler answers success
delete_return ==
    /\ loop = "delete"
    /\ loop' = "free"
    /\ answer' = [handler |-> "delete-mission", code |-> 200,
                  body |-> Body("success", "absent", "monza", "absent")]
    /\ UNCHANGED <<scripts, rest_of_bridge>>

BridgeNext ==
    \/ get_status
    \/ \E race_name \in Races : add_mission(race_name)
    \/ \E i \in 1..Len(scripts) : run_script(i)
    \/ \E i \in 1..Len(scripts) : script_exit(i)
    \/ \E circuit_id \in Circuits : delete_mission_endpoint(circuit_id)
    \/ delete_return

BridgeSpec == BridgeInit /\ [][BridgeNext]_vars

\* ------------------------------------------------------------ subsampling
\* the geo-points of a sample of n points: a car that moves along a line
Lap(n) == [j \in 1..n |-> Point(Whole(j), Whole(0))]

SubsampleInit ==
    /\ sessions = [k \in Keys |-> NoSession]
    /\ active_tasks = {}
    /\ tasks = <<>>
    /\ disk = [k \in Keys |-> "absent"]
    /\ resp = NoResp
    /\ profile = FiveWindows
    /\ asked = {}
    /\ quota = 0
    /\ faults = 0
    /\ session_bounds = [k \in Keys |-> NoBounds]
    /\ cached_drivers = {}
    /\ provisions = 0
    /\ \E n \in 0..MaxLocs : points = Lap(n)
    /\ out = NoOut
    /\ scripts = <<>>
    /\ loop = "free"
    /\ answer = NoAnswer
    /\ poller = NoPoller
    /\ buffers = NoBuffers

\* provision_session, lines 159-162: the sample is thinned out
SubsampleProvision ==
    /\ out.op = "none"
    /\ points # <<>>
    /\ out' = [NoOut EXCEPT !.op = "provision_sampled",
                            !.pts = Subsample(points, provision_target)]
    /\ UNCHANGED <<points, others>>

\* fetch_and_add_race, lines 203-206: a first lap of more than 10 points is
\* thinned out
SubsampleRace ==
    /\ out.op = "none"
    /\ Len(points) > min_lap
    /\ out' = [NoOut EXCEPT !.op = "race_sampled",
                            !.pts = Subsample(points, race_target)]
    /\ UNCHANGED <<points, others>>

SubsampleNext == SubsampleProvision \/ SubsampleRace

SubsampleSpec == SubsampleInit /\ [][SubsampleNext]_vars

\* ------------------------------------------- get_session_data, line by line
(* get_session_data tests the key (line 46) and then stores a new dict      *)
(* (lines 47-52). The handlers call it on the event loop, one handler at a  *)
(* time; ingest calls it in a worker thread, which can run between any two  *)
(* lines of a handler. A background task is started once the response of    *)
(* the handler that added it has been sent.                                 *)

\* line 46 that never finds the key
first_time_Always(s, k) == TRUE

\* line 46: "session_key not in self.sessions"
first_time(s, k) == ~s[k].present

\* what the caller saw at line 46
Seen(s, k) == IF first_time(s, k) THEN "absent" ELSE "present"

\* lines 47-52 for a caller that saw "absent": the key gets a new dict
Stored(s, k, at) == IF at = "absent" THEN [s EXCEPT ![k] = EmptySession] ELSE s

\* the number of dicts made for each key, after lines 47-52
Made(m, k, at) == IF at = "absent" THEN [m EXCEPT ![k] = @ + 1] ELSE m

\* get_openf1_catchup, lines 288-292 up to line 46 of get_session_data
CatchupCall(k) ==
    /\ buffers.call = NoCall
    /\ quota > 0
    /\ quota' = quota - 1
    /\ buffers' = [buffers EXCEPT !.call = [handler |-> "catchup", session_key |-> k,
                                             at |-> Seen(sessions, k)]]
    /\ resp' = NoResp
    /\ UNCHANGED <<sessions, active_tasks, tasks, disk, profile, asked, faults,
                   svc, provisions, geo, app, poller>>

\* lines 47-53 and the rest of get_openf1_catchup; the task of line 288 starts
\* after the response
CatchupReturn ==
    LET c == buffers.call
        k == c.session_key
    IN  /\ c.handler = "catchup"
        /\ sessions' = Stored(sessions, k, c.at)
        /\ tasks' = Append(tasks, NewTask(k, date_start(k)))
        /\ buffers' = [made |-> Made(buffers.made, k, c.at),
                       refs |-> Append(buffers.refs, NoRef),
                       call |-> NoCall]
        /\ resp' = [NoResp EXCEPT !.handler = "catchup", !.session_key = k, !.status = 200,
                                  !.telemetry = sessions'[k].telemetry,
                                  !.location = sessions'[k].location,
                                  !.buffer_size = Len(sessions'[k].telemetry)]
        /\ UNCHANGED <<active_tasks, disk, profile, asked, quota, faults,
                       svc, provisions, geo, app, poller>>

\* get_openf1_live without last_date, up to line 46 of get_session_data
LiveCall(k) ==
    /\ buffers.call = NoCall
    /\ buffers' = [buffers EXCEPT !.call = [handler |-> "live", session_key |-> k,
                                             at |-> Seen(sessions, k)]]
    /\ resp' = NoResp
    /\ UNCHANGED <<sessions, active_tasks, tasks, disk, profile, asked, quota, faults,
                   svc, provisions, geo, app, poller>>

\* lines 47-53 and lines 352-365 of get_openf1_live
LiveReturn ==
    LET c == buffers.call
        k == c.session_key
        data == Stored(sessions, k, c.at)[k]
    IN  /\ c.handler = "live"
        /\ sessions' = Stored(sessions, k, c.at)
        /\ buffers' = [buffers EXCEPT !.made = Made(buffers.made, k, c.at),
                                      !.call = NoCall]
        /\ IF Unreadable(data.telemetry) \/ Unreadable(data.location)
           THEN resp' = [NoResp EXCEPT !.handler = "live", !.session_key = k,
                                          !.status = 500, !.cause = "TypeError",
                                          !.last_date = date_start(k)]
           ELSE resp' = [NoResp EXCEPT
                               !.handler = "live", !.session_key = k, !.status = 200,
                               !.last_date = date_start(k),
                               !.telemetry = Truncate(NewerThan(data.telemetry, date_start(k))),
                               !.location = Truncate(NewerThan(data.location, date_start(k))),
                               !.buffer_size = Len(data.telemetry),
                               !.is_ingesting = k \in active_tasks]
        /\ UNCHANGED <<active_tasks, tasks, disk, profile, asked, quota, faults,
                       svc, provisions, geo, app, poller>>

\* line 63 of ingest, up to line 46 of get_session_data
IngestGetCheck(t) ==
    /\ tasks[t].pc = "get"
    /\ buffers.refs[t].at = "none"
    /\ buffers' = [buffers EXCEPT !.refs[t].at = Seen(sessions, tasks[t].session_key)]
    /\ resp' = NoResp
    /\ UNCHANGED <<sessions, active_tasks, tasks, disk, profile, asked, quota, faults,
                   svc, provisions, geo, app, poller>>

\* lines 47-53, and lines 63-74 of ingest: session_data is the dict the key
\* has when get_session_data returns
IngestGetSet(t) ==
    LET k == tasks[t].session_key
        at == buffers.refs[t].at
    IN  /\ tasks[t].pc = "get"
        /\ at \in {"absent", "present"}
        /\ sessions' = Stored(sessions, k, at)
        /\ buffers' = [buffers EXCEPT !.made = Made(buffers.made, k, at),
                                      !.refs[t] = [at |-> "held",
                                                   inst |-> Made(buffers.made, k, at)[k]]]
        /\ tasks' = [tasks EXCEPT ![t].pc = "fetch",
                                  ![t].current_dt = tasks[t].start_date,
                                  ![t].i = 0,
                                  ![t].empty_count = 0]
        /\ resp' = NoResp
        /\ UNCHANGED <<active_tasks, disk, profile, asked, quota, faults,
                       svc, provisions, geo, app, poller>>

\* session_data of the task is the dict that sessions has for the key
Attached(t) == buffers.refs[t].inst = buffers.made[tasks[t].session_key]

\* the other steps of ingest; lines 110-112 write to session_data, which
\* readers see only if it is the dict of sessions
IngestHeld(t) ==
    /\ tasks[t].pc # "get"
    /\ IF tasks[t].pc \in {"ext_tel", "ext_loc", "cursor"} /\ ~Attached(t)
       THEN /\ tasks' = [tasks EXCEPT ![t] =
                            CASE @.pc = "ext_tel" -> [@ EXCEPT !.pc = "ext_loc"]
                              [] @.pc = "ext_loc" -> [@ EXCEPT !.pc = "cursor"]
                              [] OTHER -> NextIter(@)]
            /\ resp' = NoResp
            /\ UNCHANGED <<sessions, active_tasks, disk, profile, asked, quota, faults,
                           svc, provisions, geo, app, poller, buffers>>
       ELSE IngestStep(t)

\* one session, two catchup requests, first polls at any time, a healthy upstream
BufferInit ==
    /\ InitCommon
    /\ profile \in ShortProfiles
    /\ asked = {1}
    /\ quota = MaxCatchups
    /\ faults = 0
    /\ provisions = 0

BufferNext ==
    \/ \E k \in asked : CatchupCall(k)
    \/ CatchupReturn
    \/ \E k \in asked : LiveCall(k)
    \/ LiveReturn
    \/ \E t \in TaskIds : IngestGetCheck(t)
    \/ \E t \in TaskIds : IngestGetSet(t)
    \/ \E t \in TaskIds : IngestHeld(t)

BufferSpec == BufferInit /\ [][BufferNext]_vars

\* ---------------------------------------------------------------- helpers
TerminalPcs == {"skipped", "done", "raised"}

\* where the t-th task is, if it has been scheduled
PcOf(t) == IF t \in TaskIds THEN tasks[t].pc ELSE "unscheduled"

\* the tasks of a key that are inside the for loop
Looping(k) == {t \in TaskIds : tasks[t].session_key = k /\ tasks[t].pc \in LoopPcs}

\* the number of windows a task has fetched so far in its run
Fetched(T) ==
    IF T.current_dt = None THEN 0 ELSE (T.current_dt - T.start_date) \div chunk_mins

IsPrefix(a, b) == Len(a) <= Len(b) /\ \A n \in 1..Len(a) : a[n] = b[n]

\* ================================================================= claims

\* C1: at most one fetch loop runs for a given key at any time, whatever the
\* interleaving of the background tasks.
C1_AtMostOneLoop == \A k \in Keys : Cardinality(Looping(k)) <= 1

\* The bounds of a run: a fetch loop never fetches more than max_chunks windows, it is not in the
\* loop any more once EMPTY_LIMIT consecutive windows were empty or max_chunks
\* windows were fetched, and when it leaves the loop by itself one of the two is
\* the case.
C2_LoopBounded ==
    \A t \in TaskIds :
        LET T == tasks[t]
        IN  /\ Fetched(T) <= max_chunks
            /\ T.pc \in LoopPcs => T.empty_count < EMPTY_LIMIT /\ T.i < max_chunks
            /\ T.pc = "fetch" => Fetched(T) = T.i
            /\ T.pc = "save" => T.empty_count = EMPTY_LIMIT \/ Fetched(T) = max_chunks

\* Every started fetch loop comes to its end: no task stays in the loop
\* for ever.
C2_LoopTerminates ==
    \A t \in 1..MaxCatchups :
        (PcOf(t) \in LoopPcs) ~> (PcOf(t) \in TerminalPcs)

\* C2: every started fetch loop terminates, and it fetches windows within the
\* bounds of C2_LoopBounded until it does.
C2_LoopEnds == []C2_LoopBounded /\ C2_LoopTerminates

\* a loop that ran out of its budget of windows without three empty ones in a row
C2_Witness ==
    \E t \in TaskIds :
        /\ tasks[t].pc = "done"
        /\ Fetched(tasks[t]) = max_chunks
        /\ tasks[t].empty_count < EMPTY_LIMIT

\* C3: a window whose fetch fails does not abort the loop.
C3_FetchFailureNotFatal ==
    \A t \in TaskIds : tasks[t].error # "RequestException"

\* C4: when a fetch loop ends the key leaves the in-flight set and no error
\* leaves ingest: a key is in flight only while a task of it is between its
\* add and its finally, and no task ends by raising.
C4_EndClearsAndContains ==
    /\ \A k \in active_tasks :
          \E t \in TaskIds : /\ tasks[t].session_key = k
                             /\ tasks[t].pc \in (LoopPcs \cup {"get", "save", "finally"})
    /\ \A t \in TaskIds : tasks[t].pc # "raised"

\* C5: no step removes or changes a record of a buffer: each per-kind sequence
\* before a step is a prefix of the sequence after it.
C5_AppendOnly ==
    [][\A k \in Keys :
          /\ IsPrefix(sessions[k].telemetry, sessions'[k].telemetry)
          /\ IsPrefix(sessions[k].location, sessions'[k].location)
          /\ IsPrefix(sessions[k].weather, sessions'[k].weather)]_vars

\* a loop is about to append a later window to a buffer that already holds records
C5_Witness ==
    \E t \in TaskIds :
        /\ tasks[t].pc = "cursor"
        /\ tasks[t].i >= 1
        /\ Len(sessions[tasks[t].session_key].telemetry) > Len(tasks[t].new_tel)
        /\ tasks[t].new_tel # <<>>

\* C6: last_ingested of a key never decreases.
C6_CursorMonotone ==
    [][\A k \in Keys : sessions'[k].last_ingested >= sessions[k].last_ingested]_vars

\* ---------------------------------------------------- helpers of the reads
\* the positions of the records of a list that are newer than a date
NewerAt(list, last_date) == {n \in 1..Len(list) : list[n].date > last_date}

Min(a, b) == IF a < b THEN a ELSE b

\* The position in b just after the earliest in-order match of a[lo..hi] that
\* starts at position j or later; Len(b) + 2 when b has no such match.
RECURSIVE MatchEnd(_, _, _, _, _)
MatchEnd(a, lo, hi, b, j) ==
    IF lo > hi THEN j
    ELSE IF lo = hi
    THEN IF \E n \in j..Len(b) : b[n] = a[lo]
         THEN 1 + CHOOSE n \in j..Len(b) :
                      b[n] = a[lo] /\ \A m \in j..(n - 1) : b[m] # a[lo]
         ELSE Len(b) + 2
    ELSE LET mid == (lo + hi) \div 2
             e == MatchEnd(a, lo, mid, b, j)
         IN  IF e > Len(b) + 1 THEN Len(b) + 2 ELSE MatchEnd(a, mid + 1, hi, b, e)

\* a is made of elements of b, in the order they have in b
InOrderOf(a, b) == MatchEnd(a, 1, Len(a), b, 1) <= Len(b) + 1

\* the response is an answer of /openf1/live with the records of a poll
LiveAnswer == resp.handler = "live" /\ resp.status = 200

\* the buffer a response was served from
Served == sessions[resp.session_key]

\* every task of the key has come to its end
RunOver(k) == \A t \in TaskIds : tasks[t].session_key = k => tasks[t].pc \in TerminalPcs

\* C7: a poll returns only records whose date is strictly greater than
\* last_date, in the order they have in the buffer.
C7_StrictlyNewerInOrder ==
    LiveAnswer =>
        /\ \A n \in 1..Len(resp.telemetry) : resp.telemetry[n].date > resp.last_date
        /\ \A n \in 1..Len(resp.location) : resp.location[n].date > resp.last_date
        /\ InOrderOf(resp.telemetry, Served.telemetry)
        /\ InOrderOf(resp.location, Served.location)

\* a poll whose last_date is the date of a record of the buffer, and that
\* returned later records
C7_Witness ==
    /\ LiveAnswer
    /\ \E n \in 1..Len(Served.telemetry) : Served.telemetry[n].date = resp.last_date
    /\ resp.telemetry # <<>>

\* C8: a poll returns min(POLL_LIMIT, number of newer records) records of a
\* kind, and they are the first newer records of the buffer: no newer record
\* that precedes the last one returned is left out.
C8_FirstOnes ==
    LiveAnswer =>
        /\ Len(resp.telemetry) =
              Min(POLL_LIMIT, Cardinality(NewerAt(Served.telemetry, resp.last_date)))
        /\ Len(resp.location) =
              Min(POLL_LIMIT, Cardinality(NewerAt(Served.location, resp.last_date)))
        /\ LET e == MatchEnd(resp.telemetry, 1, Len(resp.telemetry), Served.telemetry, 1)
           IN  Cardinality({n \in NewerAt(Served.telemetry, resp.last_date) : n < e})
                  = Len(resp.telemetry)
        /\ LET e == MatchEnd(resp.location, 1, Len(resp.location), Served.location, 1)
           IN  Cardinality({n \in NewerAt(Served.location, resp.last_date) : n < e})
                  = Len(resp.location)

\* a poll for which more than POLL_LIMIT records of the buffer are newer
C8_Witness ==
    /\ LiveAnswer
    /\ Cardinality(NewerAt(Served.telemetry, resp.last_date)) > POLL_LIMIT

\* C9: once ingestion of a key was requested, a poll that reports
\* is_ingesting = false means the run is over.
C9_IdleMeansOver ==
    (LiveAnswer /\ Requested(resp.session_key) /\ ~resp.is_ingesting)
        => RunOver(resp.session_key)

\* C10: no poll is answered with an error that comes from the ingestion.
C10_NoReaderError ==
    resp.status = 500 => resp.cause = "session_info"

\* ---------------------------------------------------------- reads and buffers
\* what a poll of a key leaves alone, and what it answers on an empty buffer
LiveFrame(k) ==
    /\ \A j \in Keys :
          /\ sessions'[j].telemetry = sessions[j].telemetry
          /\ sessions'[j].location = sessions[j].location
          /\ sessions'[j].weather = sessions[j].weather
          /\ sessions'[j].last_ingested = sessions[j].last_ingested
    /\ active_tasks' = active_tasks
    /\ tasks' = tasks
    /\ session_bounds' = session_bounds
    /\ (sessions[k].telemetry = <<>> /\ sessions[k].location = <<>>)
          => /\ resp'.status = 200
             /\ resp'.telemetry = <<>>
             /\ resp'.location = <<>>

\* C11: a poll can be answered in every state, whether a fetch loop runs or
\* not; answering it leaves the sequences and the cursor of every buffer, the
\* in-flight set and the bounds cache as they were, and on an empty buffer the
\* answer holds empty sequences.
C11_ReadOnlyNeverBlocks ==
    /\ [](\A k \in asked : \A d \in LastDates(k) : ENABLED Live(k, d))
    /\ [][\A k \in asked : \A d \in LastDates(k) : Live(k, d) => LiveFrame(k)]_vars

\* a poll answered with empty sequences while the loop of its key, in flight,
\* has not stored its first window
C11_Witness ==
    /\ LiveAnswer
    /\ resp.is_ingesting
    /\ resp.telemetry = <<>> /\ resp.location = <<>>
    /\ Served.telemetry = <<>> /\ Served.location = <<>>
    /\ \E t \in TaskIds : /\ tasks[t].session_key = resp.session_key
                          /\ tasks[t].pc = "fetch" /\ tasks[t].i = 0

\* C12: get_session_data makes an empty entry (empty lists, no cursor) only for
\* a key that has none, leaves every other entry and an existing entry as they
\* are, and a second call returns what the first returned, also while a fetch
\* loop runs for the key.
C12_GetCreatesOnlyIfAbsent ==
    \A k \in Keys :
        LET once == get_session_data(sessions, k)
        IN  /\ sessions[k].present => once = sessions
            /\ ~sessions[k].present => once = [sessions EXCEPT ![k] = EmptySession]
            /\ get_session_data(once, k) = once

\* a fetch loop runs for a key whose buffer holds records and a cursor
C12_Witness ==
    \E k \in Keys :
        /\ Looping(k) # {}
        /\ sessions[k].telemetry # <<>>
        /\ sessions[k].last_ingested # None

\* C13: the snapshot of a buffer is written once per run, by the step that
\* ends a loop that terminated by itself, and by no other step: a run that
\* aborts leaves the file as it was.
C13_SnapshotAtNaturalEnd ==
    [][\A t \in TaskIds :
          LET k == tasks[t].session_key
          IN  IF tasks[t].pc = "save"
              THEN tasks'[t].pc # "save" => disk'[k] = "snapshot"
              ELSE tasks'[t] # tasks[t] => disk' = disk]_vars

Usable == (\E n \in 1..Len(points) : ~IsNone(points[n].x))
              /\ (\E n \in 1..Len(points) : ~IsNone(points[n].y))

\* the ratio of a viewport side to a range, a range of 0 counting as 1
Ratio(side, lo, hi) ==
    IF REq(lo, hi) THEN Whole(side) ELSE RDiv(Whole(side), RSub(hi, lo))

\* C15: for every sample with an x and a y, calculate_session_bounds returns
\* bounds with scale > 0 and raises no ZeroDivisionError; the scale is the
\* smaller ratio of padded viewport side to range, a range of 0 (max = min)
\* counting as 1.
C15_ScalePositive ==
    (out.op = "bounds" /\ Usable) =>
        LET b == out.bounds
        IN  /\ b.cached
            /\ b.error = "none"
            /\ RLt(Whole(0), b.scale)
            /\ REq(b.scale,
                   RMin({Ratio(norm_width - 2 * padding, b.min_x, b.max_x),
                         Ratio(norm_height - 2 * padding, b.min_y, b.max_y)}))

\* bounds of a sample of several points that all have the same x
C15_Witness ==
    /\ out.op = "bounds"
    /\ out.bounds.cached
    /\ Len(points) >= 2
    /\ REq(out.bounds.min_x, out.bounds.max_x)
    /\ ~REq(out.bounds.min_y, out.bounds.max_y)

\* a position inside the padded viewport, borders included
InViewport(q) ==
    /\ RLe(Whole(padding), q.x) /\ RLe(q.x, Whole(norm_width - padding))
    /\ RLe(Whole(padding), q.y) /\ RLe(q.y, Whole(norm_height - padding))

\* C16: every point of the sample the bounds were derived from that has both
\* coordinates normalizes to a position with x in [50, 950] and y in [50, 650].
C16_SampleInsideViewport ==
    out.op = "normalized" =>
        \A n \in 1..Len(points) :
            (~IsNone(points[n].x) /\ ~IsNone(points[n].y)) => InViewport(out.pts[n])

\* a sample with a point on the left border and a point on the right border
C16_Witness ==
    /\ out.op = "normalized"
    /\ \E n, m \in 1..Len(points) :
          /\ ~IsNone(out.pts[n].x) /\ REq(out.pts[n].x, Whole(padding))
          /\ ~IsNone(out.pts[m].x) /\ REq(out.pts[m].x, Whole(norm_width - padding))
          /\ RLt(Whole(padding), out.pts[m].y)

\* the provision handler got past get_session_info and ran provision_session
Provisioned == resp.handler = "provision" /\ resp.cause # "session_info"

\* C17: when the sampling window of a key has no usable point, provision is
\* answered with the error of the bounds computation (InsufficientDataError),
\* not with a track.
C17_InsufficientDataSurfaced ==
    (Provisioned /\ ~SessionBounds[profile, resp.session_key].cached)
        => resp.status = 500 /\ resp.cause = "InsufficientDataError"

\* (v - lo) * scale + off
Transformed(b, v, lo, off) == RAdd(RMul(RSub(v, lo), b.scale), off)

\* the rows of a window normalize_point has still to go through
Todo(T) == {n \in (T.done + 1)..Len(T.new_loc) : ~IsNone(T.new_loc[n].x)}

Far(a, b) == HypotAbove(a.x[1] - b.x[1], a.y[1] - b.y[1], max_jump)

\* the command is at the input point a
At(op, a) == op.x = a.x[1] * Unit /\ op.y = a.y[1] * Unit

Without(seq, j) == [n \in 1..(Len(seq) - 1) |-> IF n < j THEN seq[n] ELSE seq[n + 1]]

NoGaps(seq) == \A i \in 1..(Len(seq) - 1) : ~Far(seq[i], seq[i + 1])

\* the j-th point is an outlier put into a sequence of four points or more
\* that has no gap
OutlierAt(j) ==
    /\ Len(points) >= 5
    /\ j \in 2..(Len(points) - 1)
    /\ Far(points[j - 1], points[j])
    /\ Far(points[j], points[j + 1])
    /\ NoGaps(Without(points, j))

\* the move-tos of the path after its first command
Breaks == {n \in 2..Len(out.ops) : out.ops[n].cmd = "M"}

\* C20: the path of a sequence of four or more points without gaps into which
\* one outlier was put has exactly one break, and it is at the outlier.
C20_OneBreakAtOutlier ==
    \A j \in 1..Len(points) :
        (out.op \in {"svg", "provision"} /\ OutlierAt(j)) =>
            /\ out.error = "none"
            /\ Cardinality(Breaks) = 1
            /\ out.op = "svg" => \A n \in Breaks : At(out.ops[n], points[j])

\* the path ends with the command that closes it
Closed(ops) == ops # <<>> /\ ops[Len(ops)].cmd = "Z"

\* the sequence with its last point ten times as far from the first
MovedLast(seq) ==
    LET f == seq[1]
        l == seq[Len(seq)]
    IN  [seq EXCEPT ![Len(seq)] = Point(Whole(f.x[1] + 10 * (l.x[1] - f.x[1])),
                                        Whole(f.y[1] + 10 * (l.y[1] - f.y[1])))]

\* C21: a path whose first and last points are closer than the closing
\* threshold is closed, and it is not closed any more once the last point is
\* moved ten times as far from the first; for generate_svg_path, and for the
\* path provision_session makes of a sample of three points or more that ends
\* where it starts.
C21_ClosedWhenNear ==
    LET first == points[1]
        last == points[Len(points)]
    IN  /\ (out.op = "svg" /\ points # <<>> /\ ~Incomplete(points)
               /\ HypotBelow(first.x[1] - last.x[1], first.y[1] - last.y[1],
                             close_threshold)) =>
              /\ out.error = "none"
              /\ Closed(out.ops)
              /\ first # last => ~Closed(generate_svg_path(MovedLast(points)).ops)
        /\ (out.op = "provision" /\ Len(points) >= 3 /\ ~Incomplete(points)
               /\ first = last) =>
              /\ out.error = "none"
              /\ Closed(out.ops)

\* C22: making a path never fails on points that all have their coordinates:
\* a path of as many commands as points for fewer than four points, a longer
\* or equal one for four or more, and no command for no point.
C22_SmootherNeverFails ==
    (out.op \in {"svg", "provision"} /\ ~Incomplete(points)) =>
        /\ out.error = "none"
        /\ points = <<>> => out.ops = <<>>
        /\ (points # <<>> /\ Len(points) < 4) =>
              /\ out.ops[1].cmd = "M"
              /\ \A n \in 1..Len(points) : out.ops[n].cmd \in {"M", "L"}
              /\ Len(out.ops) \in {Len(points), Len(points) + 1}
        /\ Len(points) >= 4 => Len(out.ops) >= Len(points)

\* ---------------------------------------------------------------- scenarios
\* the dates and cars of the records of a list, which normalization leaves alone
Arrivals(list) == [n \in 1..Len(list) |-> <<list[n].date, list[n].driver_number>>]

\* the buffer of a key holds the records the upstream has for the windows
\* 0..(w - 1) of the session, each once and in date order
HoldsWindows(k, w) ==
    LET hi == w * chunk_mins - 1
    IN  /\ sessions[k].telemetry = Rows(profile, k, "telemetry", 0, hi)
        /\ Arrivals(sessions[k].location) = Arrivals(Rows(profile, k, "location", 0, hi))

\* the task is past its loop
LoopLeft(T) == T.pc \in {"save", "finally", "done"}

\* C23: with data in the windows 0-4 and none from window 5 on, a run fetches
\* eight windows, the last three of them empty, and no more; when it has left
\* its loop the buffer holds the records of the windows 0-4 and nothing else.
C23_StopsAfterThreeEmpty ==
    profile = FiveWindows =>
        \A t \in TaskIds :
            LET T == tasks[t]
            IN  /\ Fetched(T) <= 5 + EMPTY_LIMIT
                /\ LoopLeft(T) =>
                      /\ Fetched(T) = 5 + EMPTY_LIMIT
                      /\ T.empty_count = EMPTY_LIMIT
                      /\ HoldsWindows(T.session_key, 5)

\* the run of the five-window session has come to its end
C23_Witness ==
    /\ profile = FiveWindows
    /\ \E t \in TaskIds :
          /\ tasks[t].pc = "done"
          /\ Fetched(tasks[t]) = 5 + EMPTY_LIMIT
          /\ Len(sessions[tasks[t].session_key].telemetry) = 5
          /\ Len(sessions[tasks[t].session_key].location) = 3

\* C24: with two location points in window 0, two in window 1 and nothing
\* after, a run fetches five windows and no more; when it has left its loop the
\* buffer holds the four points, and a poll without last_date made after the
\* run returns the four of them in the order they arrived in.
C24_TwoWindowsEndToEnd ==
    profile = TwoByTwo =>
        /\ \A t \in TaskIds :
              LET T == tasks[t]
              IN  /\ Fetched(T) <= 2 + EMPTY_LIMIT
                  /\ LoopLeft(T) =>
                        /\ Fetched(T) = 2 + EMPTY_LIMIT
                        /\ HoldsWindows(T.session_key, 2)
                        /\ Len(sessions[T.session_key].location) = 4
        /\ (LiveAnswer /\ Requested(resp.session_key) /\ RunOver(resp.session_key)
               /\ resp.last_date = date_start(resp.session_key)) =>
              /\ Len(resp.location) = 4
              /\ resp.location = Served.location
              /\ Arrivals(resp.location)
                    = Arrivals(UpstreamRecords(profile, resp.session_key, "location"))

\* a poll without last_date answered with the four points after the run
C24_Witness ==
    /\ profile = TwoByTwo
    /\ LiveAnswer
    /\ Requested(resp.session_key) /\ RunOver(resp.session_key)
    /\ resp.last_date = date_start(resp.session_key)
    /\ ~resp.is_ingesting
    /\ Len(resp.location) = 4

\* the coordinates of a record are the whole numbers x and y
IsAt(r, x, y) == REq(r.x, Whole(x)) /\ REq(r.y, Whole(y))

\* the first two location records of a buffer, once it holds them
FirstTwo(k) == SubSeq(sessions[k].location, 1, 2)

\* The statement of C25 as made: the point (0,0) of the first window is
\* normalized to a position near a corner of the viewport (within twice the
\* padding of it on both axes), and (10,0) to one with the same y.
C25_NearCorner ==
    profile = TwoByTwo =>
        \A k \in Keys :
            Len(sessions[k].location) >= 2 =>
                LET p == FirstTwo(k)[1]
                    q == FirstTwo(k)[2]
                IN  /\ RLe(p.x, Whole(2 * padding))
                       \/ RLe(Whole(norm_width - 2 * padding), p.x)
                    /\ RLe(p.y, Whole(2 * padding))
                       \/ RLe(Whole(norm_height - 2 * padding), p.y)
                    /\ REq(q.y, p.y)
                    /\ ~REq(q.x, p.x)

\* C25: with bounds computed from a first window that holds (0,0) and (10,0),
\* the scale is 90 and the offsets centre the box: (0,0) is normalized to
\* (50, 305), the middle of the left border of the padded viewport, and (10,0)
\* to (950, 305), which differs from it along x only.
C25_LeftBorderCentred ==
    profile = TwoByTwo =>
        \A k \in Keys :
            /\ session_bounds[k].cached =>
                  /\ REq(session_bounds[k].scale, Whole(90))
                  /\ REq(session_bounds[k].ox, Whole(padding))
                  /\ REq(session_bounds[k].oy, Whole(305))
            /\ Len(sessions[k].location) >= 2 =>
                  /\ IsAt(FirstTwo(k)[1], padding, 305)
                  /\ IsAt(FirstTwo(k)[2], norm_width - padding, 305)

\* the first window of the session, normalized, is in the buffer
C25_Witness ==
    /\ profile = TwoByTwo
    /\ \E k \in Keys :
          /\ session_bounds[k].cached
          /\ Len(sessions[k].location) = 2
          /\ Arrivals(sessions[k].location)
                = <<(<<date_start(k) + 1, 1>>), (<<date_start(k) + 3, 1>>)>>

\* C26: GET /status of the mission bridge answers 200 with the body
\* {"status": "online", "service": "f1-telemetry-bridge"} in every state:
\* every answer of the status handler is that one, whatever missions were
\* added or deleted before and whatever mission scripts are queued, running
\* or ended, and the handler can answer whenever the event loop is free.
C26_StatusAlwaysOnline ==
    /\ answer.handler = "status" => answer = Online
    /\ loop = "free" => ENABLED get_status

\* the status was answered while one mission script runs and another failed
C26_Witness ==
    /\ answer.handler = "status"
    /\ \E i \in 1..Len(scripts) : scripts[i].pc = "running"
    /\ \E i \in 1..Len(scripts) : scripts[i].pc \in {"exited_error", "failed"}

\* the windows of a session in which the upstream holds a record of some kind
\* that the two GETs of the window return
Full ==
    [p \in LongProfiles |->
        {i \in 0..(max_chunks - 1) :
            \E t \in p.tel \cup p.loc : i * chunk_mins < t /\ t < (i + 1) * chunk_mins}]

\* the number of empty windows at the end of the first n windows of a session
Streak(p, n) ==
    LET full == {i \in Full[p] : i < n}
    IN  IF full = {} THEN n
        ELSE n - 1 - (CHOOSE i \in full : \A j \in full : j <= i)

\* C27: on a healthy upstream the count of empty windows of a run is the
\* number of consecutive empty windows at the end of the windows it has
\* fetched, so any window with a record of either kind sets it back to 0; and
\* a run that has left its loop before max_chunks windows has fetched three
\* empty windows last.
C27_StreakIsConsecutive ==
    profile \in LongProfiles =>
        \A t \in TaskIds :
            LET T == tasks[t]
                n == Fetched(T)
            IN  /\ T.empty_count = Streak(profile, n)
                /\ LoopLeft(T) /\ n < max_chunks =>
                      /\ n >= EMPTY_LIMIT
                      /\ \A i \in (n - EMPTY_LIMIT)..(n - 1) : i \notin Full[profile]

\* two empty windows between two windows with data: the run has gone on over
\* the two and stopped after the three empty windows that follow
C27_Witness ==
    /\ profile = Gap
    /\ \E t \in TaskIds :
          /\ tasks[t].pc = "done"
          /\ Fetched(tasks[t]) = 4 + EMPTY_LIMIT
          /\ tasks[t].empty_count = EMPTY_LIMIT

\* the task is between two windows or past its loop
BetweenWindows(T) == T.pc = "fetch" \/ LoopLeft(T)

\* C28: the windows of a run are contiguous and do not overlap, so on a
\* healthy upstream, after w windows the buffer holds every record the
\* upstream has at the ticks 0..(w * chunk_mins - 1), those at the start of
\* a window too, each once.
C28_EveryRecordOnce ==
    profile \in LongProfiles =>
        \A t \in TaskIds :
            LET T == tasks[t]
            IN  BetweenWindows(T) /\ Fetched(T) > 0 =>
                    HoldsWindows(T.session_key, Fetched(T))

\* the records of a list that lie inside a window, not at the start of one
InWindow(list) ==
    SelectSeq(list, LAMBDA r : (r.date - date_start(r.session_key)) % chunk_mins # 0)

\* C29: every window is fetched for telemetry, location and weather: on a
\* healthy upstream, after w windows each of the three sequences of the
\* buffer holds the upstream's records of its kind inside those windows, in
\* date order, and a first poll answers with the weather records the buffer
\* should hold, up to POLL_LIMIT.
C29_ThreeKindsFetched ==
    profile \in LongProfiles =>
        /\ \A t \in TaskIds :
              LET T == tasks[t]
                  k == T.session_key
                  hi == Fetched(T) * chunk_mins - 1
              IN  BetweenWindows(T) /\ Fetched(T) > 0 =>
                      /\ sessions[k].telemetry = InWindow(Rows(profile, k, "telemetry", 0, hi))
                      /\ Arrivals(sessions[k].location)
                            = Arrivals(InWindow(Rows(profile, k, "location", 0, hi)))
                      /\ sessions[k].weather = WeatherRows(k, 0, hi)
        /\ LiveAnswer /\ resp.last_date = date_start(resp.session_key) =>
              \A t \in TaskIds :
                  tasks[t].session_key = resp.session_key /\ BetweenWindows(tasks[t]) =>
                      resp.weather
                         = Truncate(WeatherRows(resp.session_key, 0,
                                                Fetched(tasks[t]) * chunk_mins - 1))

\* where the upstream reported the car of a location record of the buffer
RawOf(r) == Track(profile.track, r.date - date_start(r.session_key), r.driver_number)

\* the record carries what normalize_point makes of its raw point with bounds b
NormalizedWith(r, b) ==
    LET q == normalize_point(b, RawOf(r))
    IN  REq(r.x, q.x) /\ REq(r.y, q.y)

\* the location records of a key's buffer that the upstream reported with
\* both coordinates
WithCoords(k) ==
    {n \in 1..Len(sessions[k].location) :
        /\ sessions[k].location[n].form = "record"
        /\ ~IsNone(RawOf(sessions[k].location[n]).x)
        /\ ~IsNone(RawOf(sessions[k].location[n]).y)}

\* C30: every location record with coordinates in a key's buffer carries its
\* raw point normalized once with the bounds cached for the key; no record
\* of the buffer is raw.
C30_AllNormalized ==
    \A k \in Keys :
        \A n \in WithCoords(k) :
            /\ session_bounds[k].cached
            /\ NormalizedWith(sessions[k].location[n], session_bounds[k])

\* the points of the sample that have both coordinates
WholePoints == {points[n] : n \in {m \in 1..Len(points) :
                                      ~IsNone(points[m].x) /\ ~IsNone(points[m].y)}}

\* C31: a point without x or without y takes no part in the bounds: the
\* extremes are those of the points that have both coordinates, and there
\* are no bounds when no such point is left.
C31_IncompleteExcluded ==
    out.op = "bounds" /\ out.bounds.error = "none" =>
        IF WholePoints = {} THEN ~out.bounds.cached
        ELSE /\ out.bounds.cached
             /\ REq(out.bounds.min_x, RMin({p.x : p \in WholePoints}))
             /\ REq(out.bounds.max_x, RMax({p.x : p \in WholePoints}))
             /\ REq(out.bounds.min_y, RMin({p.y : p \in WholePoints}))
             /\ REq(out.bounds.max_y, RMax({p.y : p \in WholePoints}))

\* the target density of the subsampling that made out
TargetOf == IF out.op = "provision_sampled" THEN provision_target ELSE race_target

\* every N-th point of the sample, N being the least whole number that is at
\* least len / target
EveryCeilNth(locs, target) == Slice(locs, (Len(locs) + target - 1) \div target)

\* C32: a sample of more points than the target is thinned out to every N-th
\* point with N = ceil(len / target), in order, so that no more than target
\* points are left; a sample of at most target points is kept whole.
C32_AtMostTarget ==
    out.op \in {"provision_sampled", "race_sampled"} =>
        /\ Len(out.pts) <= TargetOf
        /\ Len(points) <= TargetOf => out.pts = points
        /\ Len(points) > TargetOf => out.pts = EveryCeilNth(points, TargetOf)

\* the last position of the path was reached by a move-to, not by a line-to:
\* a gap broke the final segment
LastBroken(ops) == Len(ops) > 2 /\ ops[Len(ops) - 1].cmd = "M"

\* C33: a path is closed only if its end is near its start and its final
\* segment was drawn: a path whose last segment a gap broke has no closing
\* command.
C33_ClosedOnlyUnbroken ==
    out.op \in {"svg", "provision"} /\ Closed(out.ops) =>
        /\ Near(points[1], points[Len(points)])
        /\ ~LastBroken(out.ops)

\* the last position a path goes to
LastDrawn(ops) == IF Closed(ops) THEN ops[Len(ops) - 1] ELSE ops[Len(ops)]

\* the command is closer to the input point a than the distance under which
\* two ends count as the same place
Within(op, a) ==
    HypotBelow(op.x - a.x[1] * Unit, op.y - a.y[1] * Unit, close_threshold * Unit)

\* C34: the path of four or more points without a gap begins at the first
\* point and the last position it goes to is the last point, within the
\* tolerance, whether the ends are near each other or not.
C34_EndpointsKept ==
    (out.op \in {"svg", "provision"} /\ Len(points) >= 4 /\ ~Incomplete(points)
        /\ NoGaps(points)) =>
        /\ out.error = "none"
        /\ out.ops # <<>>
        /\ At(out.ops[1], points[1])
        /\ Within(LastDrawn(out.ops), points[Len(points)])

\* ------------------------------------------------------ failures and restarts
\* every element of the list is a record of the upstream
WellFormed(list) == \A n \in 1..Len(list) : list[n].form = "record"

\* C35: a response that is not a list of records aborts the run: no task goes
\* on with what such a response held, nothing of it gets into a buffer, and
\* a task that has ended with an error has left the in-flight set.
C35_MalformedAborts ==
    /\ \A t \in TaskIds :
          /\ WellFormed(tasks[t].new_tel) /\ WellFormed(tasks[t].new_loc)
          /\ (tasks[t].pc = "done" /\ tasks[t].error = "AttributeError")
                => Looping(tasks[t].session_key) # {}
                   \/ tasks[t].session_key \notin active_tasks
    /\ \A k \in Keys :
          WellFormed(sessions[k].telemetry) /\ WellFormed(sessions[k].location)

\* no two elements of the list are the same record of the upstream
Distinct(list) ==
    \A n, m \in 1..Len(list) :
        (n # m /\ list[n].form = "record" /\ list[m].form = "record")
            => Arrivals(list)[n] # Arrivals(list)[m]

\* C36: the records of a window are appended to the buffer of a key at most
\* once, whatever runs were started for the key and whenever: no buffer
\* holds a record of the upstream twice.
C36_AppendedOnce ==
    \A k \in Keys : Distinct(sessions[k].telemetry) /\ Distinct(sessions[k].location)

\* the records of a list the client can no longer get: not received, and not
\* newer than its cursor
Skipped(list, got) ==
    {n \in 1..Len(list) :
        /\ poller.since # None
        /\ list[n].date <= poller.since
        /\ <<list[n].date, list[n].driver_number>> \notin got}

\* C37: a client that polls with the greatest date it has received so far
\* skips no record of the buffer for good: every record of the buffer that is
\* not newer than its cursor has been received.
C37_NoneSkipped ==
    \A k \in asked :
        /\ Skipped(sessions[k].telemetry, poller.telemetry) = {}
        /\ Skipped(sessions[k].location, poller.location) = {}


\* the window of session k a record lies in
WindowOf(k, r) == (r.date - date_start(k)) \div chunk_mins

\* the windows of which the buffer of k shows a record
WindowsSeen(k) ==
    {WindowOf(k, sessions[k].telemetry[n]) : n \in 1..Len(sessions[k].telemetry)}
        \cup {WindowOf(k, sessions[k].location[n]) : n \in 1..Len(sessions[k].location)}

\* the buffer of k shows all of window w: the upstream's records of both
\* kinds inside the window, and a last_ingested at or after the window's end
WindowApplied(k, w) ==
    LET lo == w * chunk_mins + 1
        hi == (w + 1) * chunk_mins - 1
    IN  /\ sessions[k].last_ingested # None
        /\ sessions[k].last_ingested >= date_start(k) + (w + 1) * chunk_mins
        /\ ArrivalSet(Rows(profile, k, "telemetry", lo, hi))
               \subseteq ArrivalSet(sessions[k].telemetry)
        /\ ArrivalSet(Rows(profile, k, "location", lo, hi))
               \subseteq ArrivalSet(sessions[k].location)

\* C38: a reader running concurrently with the fetch loop never observes a
\* half-applied window: on a healthy upstream and with one run, whenever the
\* buffer shows a record of a window, it shows the window's records of both
\* kinds and last_ingested is at least the window's end.
C38_NoHalfWindow ==
    profile \in LongProfiles =>
        \A k \in asked : \A w \in WindowsSeen(k) : WindowApplied(k, w)



\* ---------------------------------------------------------- keys and buffers
\* a step made for session k: its catchup handler, its live handler, or a
\* step of one of its runs of ingest
OfKey(k) ==
    \/ Catchup(k)
    \/ \E d \in LastDates(k) : Live(k, d)
    \/ \E t \in TaskIds : tasks[t].session_key = k /\ IngestStep(t)

\* the step leaves what the server holds for session j as it was
Untouched(j) ==
    /\ sessions'[j] = sessions[j]
    /\ (j \in active_tasks') = (j \in active_tasks)
    /\ session_bounds'[j] = session_bounds[j]

\* a run that returned at line 57 found a run of its own key in flight
OwnKeySkips ==
    \A t \in TaskIds :
        tasks[t].pc = "skipped" =>
            \E u \in TaskIds \ {t} : /\ tasks[u].session_key = tasks[t].session_key
                                     /\ tasks[u].pc \notin {"check", "add"}

\* C39: the fetch loop, get_session_data and the live handler of one session
\* key never change the buffer, last_ingested, the membership in
\* active_tasks or the bounds of another key, and a run is turned away only
\* by a run of its own key, so that two keys can be fetched at the same time.
C39_PerKeyIsolation ==
    /\ []OwnKeySkips
    /\ [][\A k \in Keys : OfKey(k) => \A j \in Keys \ {k} : Untouched(j)]_vars

\* the loops of both keys are running and each has put records into its buffer
C39_BothFetching ==
    \E t \in TaskIds, u \in TaskIds :
        /\ tasks[t].session_key = 1 /\ tasks[t].pc \in LoopPcs
        /\ tasks[u].session_key = 2 /\ tasks[u].pc \in LoopPcs
        /\ sessions[1].telemetry # <<>>
        /\ sessions[2].telemetry # <<>>



\* C40: the fetch loop and the readers of a key share one buffer: however the
\* first calls of get_session_data by the loop and by the handlers interleave,
\* at most one dict is ever made for a key, the dict a run holds is the one
\* sessions has, and what a run has appended is in the buffer that later
\* reads are served from.
C40_OneBuffer ==
    /\ \A k \in Keys : buffers.made[k] <= 1
    /\ \A k \in Keys : sessions[k].present <=> buffers.made[k] = 1
    /\ \A t \in TaskIds :
          LET T == tasks[t]
              k == T.session_key
          IN  /\ buffers.refs[t].at = "held" => buffers.refs[t].inst = buffers.made[k]
              /\ T.pc \in {"ext_loc", "cursor"} =>
                    ArrivalSet(T.new_tel) \subseteq ArrivalSet(sessions[k].telemetry)
              /\ T.pc = "cursor" =>
                    ArrivalSet(T.new_loc) \subseteq ArrivalSet(sessions[k].location)

\* a first poll was answered with a record that a run, which called
\* get_session_data after a handler had, appended
C40_Witness ==
    /\ LiveAnswer
    /\ resp.telemetry # <<>>
    /\ \E t \in TaskIds : buffers.refs[t].at = "held" /\ tasks[t].pc \in LoopPcs


====
